---- MODULE Spec2Model ----
(***************************************************************************)
(* Mora the Explorer: the discovery-match-copy engine (checknmr.py), the    *)
(* Worker that runs one scan (worker.py), the Explorer that queues scans   *)
(* on its thread pool (explorer.py) and its two front ends, the desktop    *)
(* Controller (controller.py) and the command line (__main__.py).          *)
(*                                                                         *)
(* Spec is one Worker after another running check_nmr on a share;          *)
(* SpecQueue is the Explorer's queue with a front end driving it.          *)
(*                                                                         *)
(* Text is modelled as a sequence of one-character strings, so that        *)
(* slicing (title[1][:3]), substring tests and joins are computed.  A      *)
(* nullable value is an option: None is <<>>, Some(x) is <<x>>.            *)
(***************************************************************************)
EXTENDS Integers, Sequences, FiniteSets, TLC

\* ------------------------------------------------------------------ bounds

\* number of scans dispatched in one behaviour
MaxScans == 2

\* number of spectrum folders in one directory of the share
MaxFolders == 2

\* dates are day numbers 1..DateMax: DateMax stands for date.max, the last day
\* a date can hold, and Today for date.today()
Today == 2

DateMax == 4

\* number of times the desktop's started() runs in one behaviour
MaxStarts == 2

\* number of get_check_paths calls made one after another in one process
MaxCalls == 2

\* ------------------------------------------------------------------ text

None == <<>>

Some(x) == <<x>>

Digits == <<"0", "1", "2", "3", "4", "5", "6", "7", "8", "9">>

\* str(num) for the numbers a name suffix can take
str(n) == IF n < 10 THEN <<Digits[n + 1]>> ELSE <<Digits[(n \div 10) + 1], Digits[(n % 10) + 1]>>

\* s[:n]
Take(s, n) == SubSeq(s, 1, IF n < Len(s) THEN n ELSE Len(s))

\* s[n:]
Drop(s, n) == SubSeq(s, n + 1, Len(s))

\* `sub in s` for strings
Contains(sub, s) == \E i \in 0..(Len(s) - Len(sub)) : SubSeq(s, i + 1, i + Len(sub)) = sub

RECURSIVE Join(_, _)
\* sep.join(parts)
Join(sep, parts) == IF parts = <<>> THEN <<>> ELSE IF Len(parts) = 1 THEN parts[1] ELSE parts[1] \o sep \o Join(sep, Tail(parts))

\* str.isalnum() on the characters that occur
isalnum(c) == c \notin {"-", "_", " ", "+", "/", ".", "*"}

\* str(hex(ord(x))) for the special characters that occur
hex(c) == IF c = "+" THEN <<"0", "x", "2", "b">> ELSE IF c = "/" THEN <<"0", "x", "2", "f">> ELSE IF c = "*" THEN <<"0", "x", "2", "a">> ELSE <<"0", "x", "2", "e">>

\* ------------------------------------------------------------------ folders

\* the names of the top-level entries a spectrum folder can have
EntryNames == {"fid", "audita.txt", "acqus", "pdata", "exp1", "exp2"}

\* the order in which iterdir() yields them
EntryOrder == <<"fid", "audita.txt", "acqus", "pdata", "exp1", "exp2">>

diagnostic_files == {"fid", "audita.txt"}

Absent == [k |-> "absent"]

\* a regular file: content c, modification time m
File(c, m) == [k |-> "file", c |-> c, m |-> m]

\* a subfolder: its own fid and audita.txt (0: none) and its `text` file
Dir(fid, audita, text) == [k |-> "dir", fid |-> fid, audita |-> audita, text |-> text]

NoText == [k |-> "none"]

\* a `text` file with fewer than 4 lines
ShortText == [k |-> "short"]

\* a `text` file whose 4th line starts with freq
Text(freq) == [k |-> "ok", freq |-> freq]

\* st_size of a file with content c: contents 1 and 2 have one size, 3 and 4 another
size_of(c) == (c + 1) \div 2

exists(e) == e.k # "absent"

\* the diagnostic files directly inside subfolder d, with their contents
DirDiag(d, x) == IF x = "fid" THEN d.fid ELSE d.audita

\* ------------------------------------------------------------------ metadata

Raise(e) == [exc |-> e, md |-> None]

Return(md) == [exc |-> "none", md |-> Some(md)]

\* str(folder.relative_to(server_path))
server_location(folder) == folder.parent \o <<"/">> \o folder.name

\* get_metadata_bruker: folder.title is the list of lines of pdata/1/title, each
\* line already split() into tokens; has_title is FALSE when the file is absent
get_metadata_bruker(folder) ==
    IF ~folder.has_title THEN Raise("FileNotFoundError")
    ELSE IF Len(folder.title) < 2 THEN Raise("IndexError")
    ELSE LET title == folder.title[1]
             details == folder.title[2]
             md(initials, sample_info) ==
                 IF Len(details) < 2 THEN Raise("IndexError")
                 ELSE Return([server_location |-> server_location(folder),
                              group |-> Some(title[1]),
                              initials |-> initials,
                              sample_info |-> sample_info,
                              experiment |-> Some(details[1]),
                              solvent |-> Some(details[2]),
                              frequency |-> None])
         IN IF Len(title) >= 3
            THEN IF Len(title[2]) <= 3
                 THEN md(title[2], Some(Drop(title, 2)))
                 \* [title[1][3:]].extend(title[2:]) evaluates to None
                 ELSE md(Take(title[2], 3), None)
            ELSE IF Len(title) >= 2
            THEN IF Len(title[2]) <= 3
                 THEN Raise("IndexError")
                 ELSE md(Take(title[2], 3),
                         Some(<<IF isalnum(title[2][4]) THEN Drop(title[2], 3) ELSE Drop(title[2], 4)>>))
            ELSE Raise("IndexError")

\* the subfolders of folder that hold a `text` file, in iteration order
text_subfolders(folder) == SelectSeq(EntryOrder, LAMBDA n : folder.entries[n].k = "dir" /\ folder.entries[n].text.k # "none")

\* get_metadata_agilent: the for loop visits every subfolder, so the last
\* `text` file read decides magnet_freq
get_metadata_agilent(folder) ==
    LET subs == text_subfolders(folder)
    IN IF \E i \in 1..Len(subs) : folder.entries[subs[i]].text.k = "short"
       THEN Raise("IndexError")
       ELSE Return([server_location |-> server_location(folder),
                    group |-> None,
                    initials |-> Take(folder.name, 3),
                    sample_info |-> Some(<<Drop(folder.name, 3)>>),
                    experiment |-> None,
                    solvent |-> None,
                    frequency |-> IF subs = <<>> THEN None ELSE Some(folder.entries[subs[Len(subs)]].text.freq)])

\* ------------------------------------------------------------------ names

RECURSIVE sanitize(_)
\* every character that is not alphanumeric, "-", "_" or " " becomes its hex code
sanitize(name) == IF name = <<>> THEN <<>> ELSE (IF isalnum(name[1]) \/ name[1] \in {"-", "_", " "} THEN <<name[1]>> ELSE hex(name[1])) \o sanitize(Tail(name))

\* a format_name that puts the group in front whenever the metadata has one
format_name_grouped(folder, metadata, inc_group, inc_init, inc_solv, nmrcheck_style) ==
    IF metadata.sample_info = None THEN [exc |-> "TypeError", name |-> <<>>]
    ELSE LET base == Join(<<"-">>, metadata.sample_info[1] \o metadata.experiment)
             n1 == IF inc_init THEN metadata.initials \o <<"-">> \o base ELSE base
             n2 == IF metadata.group # None THEN metadata.group[1] \o <<"-">> \o n1 ELSE n1
             n3 == IF inc_solv /\ metadata.solvent # None THEN n2 \o <<"-">> \o metadata.solvent[1] ELSE n2
         IN [exc |-> "none", name |-> sanitize(n3)]

\* a format_name whose legacy style also obeys inc_init
format_name_toggled(folder, metadata, inc_group, inc_init, inc_solv, nmrcheck_style) ==
    IF metadata.sample_info = None THEN [exc |-> "TypeError", name |-> <<>>]
    ELSE LET base == IF nmrcheck_style
                     THEN Join(<<"_">>, <<metadata.initials>> \o metadata.sample_info[1] \o <<folder.parent, folder.name>>)
                     ELSE Join(<<"-">>, metadata.sample_info[1] \o metadata.experiment)
             n1 == IF inc_init THEN metadata.initials \o <<"-">> \o base ELSE base
             n2 == IF ~nmrcheck_style /\ inc_group /\ metadata.group # None THEN metadata.group[1] \o <<"-">> \o n1 ELSE n1
             n3 == IF inc_solv /\ metadata.solvent # None THEN n2 \o <<"-">> \o metadata.solvent[1] ELSE n2
             n4 == IF metadata.frequency # None THEN n3 \o <<"_">> \o metadata.frequency[1] ELSE n3
         IN [exc |-> "none", name |-> sanitize(n4)]

\* format_name; exc is "TypeError" when *metadata["sample_info"] unpacks None
format_name(folder, metadata, inc_group, inc_init, inc_solv, nmrcheck_style) ==
    IF metadata.sample_info = None THEN [exc |-> "TypeError", name |-> <<>>]
    ELSE LET base == IF nmrcheck_style
                     THEN Join(<<"_">>, <<metadata.initials>> \o metadata.sample_info[1] \o <<folder.parent, folder.name>>)
                     ELSE Join(<<"-">>, metadata.sample_info[1] \o metadata.experiment)
             n1 == IF ~nmrcheck_style /\ inc_init THEN metadata.initials \o <<"-">> \o base ELSE base
             n2 == IF ~nmrcheck_style /\ inc_group /\ metadata.group # None THEN metadata.group[1] \o <<"-">> \o n1 ELSE n1
             n3 == IF inc_solv /\ metadata.solvent # None THEN n2 \o <<"-">> \o metadata.solvent[1] ELSE n2
             n4 == IF metadata.frequency # None THEN n3 \o <<"_">> \o metadata.frequency[1] ELSE n3
         IN [exc |-> "none", name |-> sanitize(n4)]

\* str.replace("/", "_").replace("\\", "_")
replace_separators(s) == [i \in 1..Len(s) |-> IF s[i] = "/" THEN "_" ELSE s[i]]

\* format_name_admin; inc_path is "False", "True", "before" or "after"
format_name_admin(folder, metadata, inc_solv, inc_path) ==
    LET r == format_name(folder, metadata, TRUE, TRUE, inc_solv, FALSE)
        location == replace_separators(metadata.server_location)
    IN IF r.exc # "none" THEN r
       ELSE IF inc_path \in {"before", "True"} THEN [exc |-> "none", name |-> location \o <<"_">> \o r.name]
       ELSE IF inc_path = "after" THEN [exc |-> "none", name |-> r.name \o <<"_">> \o location]
       ELSE r

\* ------------------------------------------------------------------ copying

\* filecmp.cmp(f1, f2, shallow=True) of two regular files
shallow_cmp(f1, f2) == IF size_of(f1.c) = size_of(f2.c) /\ f1.m = f2.m THEN TRUE ELSE IF size_of(f1.c) # size_of(f2.c) THEN FALSE ELSE f1.c = f2.c

\* filecmp.cmpfiles(a, b, diagnostic_files, shallow=False)[0] at the top level
top_level_cmp(server_folder, dest_folder) == {x \in diagnostic_files : server_folder[x].k = "file" /\ dest_folder[x].k = "file" /\ server_folder[x].c = dest_folder[x].c}

\* the same comparison inside subfolder x of both
subdir_cmp(server_folder, dest_folder, x) == {d \in diagnostic_files : server_folder[x].k = "dir" /\ dest_folder[x].k = "dir" /\ DirDiag(server_folder[x], d) # 0 /\ DirDiag(server_folder[x], d) = DirDiag(dest_folder[x], d)}

\* filecmp.dircmp(server_folder, dest_folder).same_files
same_files(server_folder, dest_folder) == {x \in EntryNames : server_folder[x].k = "file" /\ dest_folder[x].k = "file" /\ shallow_cmp(server_folder[x], dest_folder[x])}

\* filecmp.dircmp(server_folder, dest_folder).left_only
left_only(server_folder, dest_folder) == {x \in EntryNames : exists(server_folder[x]) /\ ~exists(dest_folder[x])}

compare_spectra(server_folder, dest_folder) ==
    LET same == \/ top_level_cmp(server_folder, dest_folder) # {}
                \/ \E x \in EntryNames : subdir_cmp(server_folder, dest_folder, x) # {}
                \/ same_files(server_folder, dest_folder) # {}
    IN [same |-> same, incomplete |-> same /\ left_only(server_folder, dest_folder) # {}]

Msg(pre, arg) == [pre |-> pre, arg |-> arg]

PermissionMsg == Msg("You do not have permission to write to the given folder", <<>>)

\* a numbering loop that gives up and writes to the name that is taken
next_target_taken(src, target, num, dest) == [target |-> target, same |-> FALSE, incomplete |-> FALSE]

RECURSIVE next_target(_, _, _, _)
\* the while loop of copy_folder, entered with same_spectrum_found False
next_target(src, target, num, dest) ==
    LET t == target \o <<"-">> \o str(num + 1)
    IN IF t \in DOMAIN dest
       THEN LET c == compare_spectra(src, dest[t])
            IN IF c.same THEN [target |-> t, same |-> TRUE, incomplete |-> c.incomplete]
               ELSE next_target(src, t, num + 1, dest)
       ELSE [target |-> t, same |-> FALSE, incomplete |-> FALSE]

\* a search that never compares with the folder of the desired name
find_target_uncompared(src, target, dest) ==
    IF target \in DOMAIN dest
    THEN next_target(src, target, 1, dest)
    ELSE [target |-> target, same |-> FALSE, incomplete |-> FALSE]

\* the target copy_folder settles on, and what compare_spectra said of it
find_target(src, target, dest) ==
    IF target \in DOMAIN dest
    THEN LET c == compare_spectra(src, dest[target])
         IN IF c.same THEN [target |-> target, same |-> TRUE, incomplete |-> c.incomplete]
            ELSE next_target(src, target, 1, dest)
    ELSE [target |-> target, same |-> FALSE, incomplete |-> FALSE]

\* a repair that copies nothing
repair_nothing(src, dest_folder) == dest_folder

\* the repair: every top-level entry of src that target lacks is copied
repair(src, dest_folder) == [x \in EntryNames |-> IF exists(dest_folder[x]) THEN dest_folder[x] ELSE src[x]]

\* shutil.copytree / shutil.copy2 into the destination: PermissionError when
\* the destination is not writable
shutil_copy(writable) == IF writable THEN "none" ELSE "PermissionError"

\* a copy_folder without its except clause: PermissionError leaves the function
copy_folder_uncaught(src, target, dest, writable) ==
    LET f == find_target(src, target, dest)
    IN IF f.same /\ ~f.incomplete
       THEN [dest |-> dest, output |-> <<>>, exc |-> "none"]
       ELSE IF shutil_copy(writable) # "none"
       THEN [dest |-> dest, output |-> <<>>, exc |-> shutil_copy(writable)]
       ELSE IF f.same
       THEN [dest |-> [dest EXCEPT ![f.target] = repair(src, dest[f.target])], output |-> <<Msg("New files found for: ", f.target)>>, exc |-> "none"]
       ELSE [dest |-> (f.target :> src) @@ dest, output |-> <<Msg("Spectrum found: ", f.target)>>, exc |-> "none"]

\* a copy_folder that reports a spectrum it has already copied completely
copy_folder_announcing(src, target, dest, writable) ==
    LET f == find_target(src, target, dest)
    IN IF f.same /\ ~f.incomplete
       THEN [dest |-> dest, output |-> <<Msg("Spectrum found: ", f.target)>>, exc |-> "none"]
       ELSE copy_folder_uncaught(src, target, dest, writable)

\* copy_folder(src, target) on destination tree dest: the new tree, the
\* returned messages, and the exception that leaves the function ("none":
\* PermissionError is caught and turned into a message)
copy_folder(src, target, dest, writable) ==
    LET f == find_target(src, target, dest)
    IN IF f.same /\ f.incomplete
       THEN IF shutil_copy(writable) = "none"
            THEN [dest |-> [dest EXCEPT ![f.target] = repair(src, dest[f.target])],
                  output |-> <<Msg("New files found for: ", f.target)>>,
                  exc |-> "none"]
            ELSE [dest |-> dest, output |-> <<PermissionMsg>>, exc |-> "none"]
       ELSE IF ~f.same
       THEN IF shutil_copy(writable) = "none"
            THEN [dest |-> (f.target :> src) @@ dest,
                  output |-> <<Msg("Spectrum found: ", f.target)>>,
                  exc |-> "none"]
            ELSE [dest |-> dest, output |-> <<PermissionMsg>>, exc |-> "none"]
       ELSE [dest |-> dest, output |-> <<>>, exc |-> "none"]

\* ------------------------------------------------------------------ inputs

mjm == <<"m", "j", "m">>

stu == <<"s", "t", "u">>

nmr == <<"n", "m", "r">>

proton == <<"p", "r", "o", "t", "o", "n">>

DMSO == <<"D", "M", "S", "O">>

Details == <<proton, DMSO>>

\* the title files of the Bruker folders on the share
TitleOk == <<<<stu, mjm, <<"5", "0", "0">>, <<"1">>>>, Details>>

TitleJoined == <<<<stu, <<"m", "j", "m", "5", "0", "0">>, <<"1">>>>, Details>>

TitleTwo == <<<<stu, <<"m", "j", "m", "+", "7">>>>, Details>>

TitlePrefix == <<<<<<"g", "i", "l">>, <<"m", "j">>, <<"5", "0", "0">>, <<"1">>>>, Details>>

TitleOneToken == <<<<stu>>, Details>>

TitleOneLine == <<<<stu, mjm, <<"5", "0", "0">>, <<"1">>>>>>

TitleNoSolvent == <<<<stu, mjm, <<"5", "0", "0">>, <<"1">>>>, <<proton>>>>

Entries(fid, audita, acqus, pdata, exp1, exp2) == [n \in EntryNames |-> CASE n = "fid" -> fid [] n = "audita.txt" -> audita [] n = "acqus" -> acqus [] n = "pdata" -> pdata [] n = "exp1" -> exp1 [] OTHER -> exp2]

PData == Dir(0, 0, NoText)

\* a Bruker measurement, a different one, and one with no fid yet and no
\* top-level file
BrukerA == Entries(File(1, 1), Absent, File(1, 1), PData, Absent, Absent)

BrukerB == Entries(File(2, 2), Absent, File(3, 2), PData, Absent, Absent)

BrukerBare == Entries(Absent, Absent, Absent, PData, Absent, Absent)

Folder(name, parent, has_title, title, entries) == [name |-> name, parent |-> parent, has_title |-> has_title, title |-> title, entries |-> entries]

Day == <<"O", "c", "t", "1", "6">>

BrukerFolders ==
    { Folder(<<"1", "0">>, Day, TRUE, TitleOk, BrukerA),
      Folder(<<"1", "1">>, Day, TRUE, TitleOk, BrukerB),
      Folder(<<"1", "2">>, Day, TRUE, TitleOk, BrukerBare),
      Folder(<<"1", "3">>, Day, TRUE, TitleJoined, BrukerA),
      Folder(<<"1", "4">>, Day, TRUE, TitleTwo, BrukerB),
      Folder(<<"1", "5">>, Day, TRUE, TitlePrefix, BrukerA),
      Folder(<<"1", "6">>, Day, TRUE, TitleOneToken, BrukerA),
      Folder(<<"1", "7">>, Day, TRUE, TitleOneLine, BrukerA),
      Folder(<<"1", "8">>, Day, TRUE, TitleNoSolvent, BrukerA),
      Folder(<<"1", "9">>, Day, FALSE, <<>>, Entries(Absent, Absent, Absent, Absent, Absent, Absent)) }

f500 == <<"5", "0", "0">>

AgilentA == Entries(Absent, Absent, Absent, Absent, Dir(1, 0, Text(f500)), Absent)

AgilentB == Entries(Absent, Absent, Absent, Absent, Dir(2, 0, NoText), Absent)

AgilentShort == Entries(Absent, Absent, Absent, Absent, Dir(3, 0, ShortText), Absent)

Group == <<"s", "t", "u", "d", "e", "r">>

AgilentFolders ==
    { Folder(<<"m", "j", "m", "1", "2">>, Group, FALSE, <<>>, AgilentA),
      Folder(<<"m", "j", "m", "1", "2">>, Group, FALSE, <<>>, AgilentB),
      Folder(<<"x", "m", "j", "m", "1">>, Group, FALSE, <<>>, AgilentA),
      Folder(<<"a", "b", "c", "1", "2">>, Group, FALSE, <<>>, AgilentB),
      Folder(<<"m", "j", "m", "3", "4">>, Group, FALSE, <<>>, AgilentShort) }

\* what the instrument may still write into a spectrum folder after a scan:
\* the audit trail on a Bruker instrument, a further experiment on an Agilent
\* one; its content and size are particular to folder j of directory i
LateName(m) == IF m = "bruker" THEN "audita.txt" ELSE "exp2"

LateContent(i, j) == 2 * ((MaxFolders + 1) * i + j)

LateEntry(m, i, j) == IF m = "bruker" THEN File(LateContent(i, j), 3) ELSE Dir(LateContent(i, j), 0, Text(f500))

\* fed_options: the requester's options (dest_path is dest_exists / dest)
Options(group, initials, inc_init, inc_solv, nmrcheck_style, inc_path) == [group |-> group, initials |-> initials, inc_init |-> inc_init, inc_solv |-> inc_solv, nmrcheck_style |-> nmrcheck_style, inc_path |-> inc_path]

OptionSets ==
    { Options(stu, mjm, TRUE, TRUE, FALSE, "False"),
      Options(nmr, stu, TRUE, TRUE, FALSE, "before") }

\* the overflow directory of the same day: absent, or holding one more
\* measurement of the same sample
OverflowDir(m) == IF m = "bruker" THEN <<Folder(<<"1", "0">>, Day \o <<"_", "2">>, TRUE, TitleOk, BrukerB)>> ELSE <<Folder(<<"m", "j", "m", "1", "2">>, Group \o <<"_", "2">>, FALSE, <<>>, AgilentB)>>

SeqsUpTo(S, n) == UNION {[1..k -> S] : k \in 0..n}

\* a directory of the share: absent, or present with up to n spectrum folders
DirChoices(S, n) == {[exists |-> FALSE, folders |-> <<>>]} \cup {[exists |-> TRUE, folders |-> fs] : fs \in SeqsUpTo(S, n)}

\* ------------------------------------------------------------------ state

VARIABLES manufacturer, fed_options, handler, dirs, dest_exists, server_ok, dest, writable

VARIABLES pc, output_list, cands, pos, prog_state, prog_max, exc

VARIABLES scans, completed, emitted

VARIABLES handled, entered, touched, dest0, clean, repeat

\* the Explorer and its thread pool: the counter, the Workers waiting, the
\* Workers running, and the completed signals posted to the main thread
VARIABLES queued_checks, threadpool, running, posted

\* the front end: which one, where its main thread is, its exit code, and for
\* the desktop the repeat timer, the status bar and the options that matter
VARIABLES frontend, main, exit_code, timer, status_bar, repeat_switch, since_button, date_selected

\* history: the Workers in the order they were created, started, emitted
\* completed and were handled; how often started() ran and how often the
\* timer called it; whether the repeat was cancelled since the last explicit start;
\* the options each Worker was created with
VARIABLES created, begun, reported, ended, starts, timer_starts, cancelled, queued_with

\* the options check_nmr read, by Worker; the progress bar's maximum and the
\* value last handed to it, the prog_state of each running check_nmr, and the
\* progress signals on their way to the main thread
VARIABLES read_by, bar_max, bar_value, prog_of, signals

\* the configuration, the share and the destination
env == <<manufacturer, fed_options, handler, dirs, dest_exists, server_ok, dest, writable>>

\* the locals of the running check_nmr
scan == <<pc, output_list, cands, pos, prog_state, prog_max, exc>>

\* the Worker's signals
worker == <<scans, completed, emitted>>

\* history: what happened to each candidate of the scan, whether the scan
\* entered its loop, the destination when it started, and whether it repeats
\* a completed scan with nothing changed in between
hist == <<handled, entered, touched, dest0, clean, repeat>>

\* the Explorer's queue
pool == <<queued_checks, threadpool, running, posted>>

\* the front end
front == <<frontend, main, exit_code, timer, status_bar, repeat_switch, since_button, date_selected>>

\* the history of the queue
qhist == <<created, begun, reported, ended, starts, timer_starts, cancelled, queued_with>>

\* what the Workers share with the main thread besides the queue
shared == <<read_by, bar_max, bar_value, prog_of, signals>>

\* everything of the queue that one Worker alone does not touch
queue == <<pool, front, qhist, shared>>

\* get_check_paths on its own: the instruments' configuration as it is now and
\* as it was loaded, the directories on the share, and the last call
VARIABLES specs_info, loaded, share, called, resolved, path_exc, calls, included_alone

resolving == <<specs_info, loaded, share, called, resolved, path_exc, calls, included_alone>>

\* format_name on its own: the spectrum folder that is named and the result
VARIABLES named, name_out

naming == <<named, name_out>>

\* Config.__init__: the two configurations, the user's file as it is and as it
\* was found, and the outcome
VARIABLES app_config, user_config, user_file, found_file, config_exc, config_done

configuring == <<app_config, user_config, user_file, found_file, config_exc, config_done>>

\* compare_spectra applied on its own: the two folders compared, each with the
\* measurement it comes from, and the result
VARIABLES compared, compare_out

comparing == <<compared, compare_out>>

\* the replacement of special characters applied on its own: a composed name
\* and what becomes of it
VARIABLES composed, sanitized

sanitizing == <<composed, sanitized>>

\* the command line's user argument, and what main() makes of it
VARIABLES args_user, user_parsed

parsing == <<args_user, user_parsed>>

\* get_metadata_agilent on its own: the folder, where the call stands, the
\* entries of iterdir() already visited, magnet_freq, and the dict returned
VARIABLES probed, agilent_pc, visited, magnet_freq, agilent_md

probing == <<probed, agilent_pc, visited, magnet_freq, agilent_md>>

\* everything outside one Worker's check_nmr
beside == <<queue, resolving, naming, configuring, comparing, sanitizing, parsing, probing>>

vars == <<env, scan, worker, hist, queue, resolving, naming, configuring, comparing, sanitizing, parsing, probing>>

\* no name sanitized on its own
NoSanitize == composed = <<>> /\ sanitized = <<>>

\* no user argument parsed on its own
NoParse == args_user = <<>> /\ user_parsed = <<>>

\* get_metadata_agilent not called on its own
NoProbe == probed = <<>> /\ agilent_pc = "off" /\ visited = 0 /\ magnet_freq = <<>> /\ agilent_md = <<>>

\* compare_spectra not called on its own
NoCompare == compared = <<>> /\ compare_out = <<>>

\* format_name not called on its own
NoNames == named = <<>> /\ name_out = <<>>

\* no Config constructed
NoConfig ==
    /\ app_config = <<>>
    /\ user_config = <<>>
    /\ user_file = <<>>
    /\ found_file = <<>>
    /\ config_exc = "none"
    /\ config_done = FALSE

\* get_check_paths not called on its own
NoPaths ==
    /\ specs_info = <<>>
    /\ loaded = <<>>
    /\ share = [present |-> {}, nums |-> {}]
    /\ called = <<>>
    /\ resolved = <<>>
    /\ path_exc = "none"
    /\ calls = 0
    /\ included_alone = <<>>

\* Explorer.__init__ with no front end attached
NoQueue ==
    /\ queued_checks = 0
    /\ threadpool = <<>>
    /\ running = {}
    /\ posted = <<>>
    /\ frontend = "none"
    /\ main = "start"
    /\ exit_code = -1
    /\ timer = FALSE
    /\ status_bar = "start"
    /\ repeat_switch = FALSE
    /\ since_button = FALSE
    /\ date_selected = 0
    /\ created = <<>>
    /\ begun = <<>>
    /\ reported = <<>>
    /\ ended = <<>>
    /\ starts = 0
    /\ timer_starts = 0
    /\ cancelled = FALSE
    /\ queued_with = <<>>
    /\ read_by = {}
    /\ bar_max = 1
    /\ bar_value = 1
    /\ prog_of = {}
    /\ signals = <<>>

NoNewSpectra == Msg("No new spectra", <<>>)

\* a list that starts empty
empty_output == <<>>

\* output_list = ["No new spectra"]
initial_output == <<NoNewSpectra>>

\* f"Check of {check_date} completed at " + now
completed_statement == Msg("Check of ", <<>>)

\* get_check_paths without the test that a path exists
check_path_list_unfiltered == dirs

\* the directories get_check_paths keeps: those that exist
check_path_list == SelectSeq(dirs, LAMBDA d : d.exists)

RECURSIVE Flatten(_)
\* the spectrum folders of all the paths, in path order then iterdir() order
Flatten(paths) == IF paths = <<>> THEN <<>> ELSE paths[1].folders \o Flatten(Tail(paths))

\* get_number_spectra(paths=check_path_list)
get_number_spectra(paths) == Len(Flatten(paths))

Init ==
    /\ manufacturer \in {"bruker", "agilent"}
    /\ fed_options \in OptionSets
    /\ handler \in {"file", "stream", "none"}
    /\ dirs \in {<<d1, d2>> : d1 \in DirChoices(IF manufacturer = "bruker" THEN BrukerFolders ELSE AgilentFolders, MaxFolders), d2 \in {[exists |-> FALSE, folders |-> <<>>], [exists |-> TRUE, folders |-> OverflowDir(manufacturer)]}}
    /\ dest_exists \in BOOLEAN
    /\ server_ok \in BOOLEAN
    /\ dest = <<>>
    /\ writable \in BOOLEAN
    /\ pc = "idle"
    /\ output_list = <<>>
    /\ cands = <<>>
    /\ pos = 1
    /\ prog_state = 0
    /\ prog_max = 0
    /\ exc = "none"
    /\ scans = 0
    /\ completed = 0
    /\ emitted = <<>>
    /\ handled = <<>>
    /\ entered = FALSE
    /\ touched = <<>>
    /\ dest0 = <<>>
    /\ clean = FALSE
    /\ repeat = FALSE
    /\ NoQueue
    /\ NoPaths
    /\ NoNames
    /\ NoConfig
    /\ NoCompare
    /\ NoSanitize
    /\ NoParse
    /\ NoProbe

\* a fail-fast return that also carries the completion message
fail_fast_completed(text) == initial_output \o <<Msg(text, <<>>), completed_statement>>

\* a fail-fast return of check_nmr
fail_fast(text) == initial_output \o <<Msg(text, <<>>)>>

\* a setup that tests the server before the destination
setup_server_first ==
    IF ~server_ok THEN [text |-> "The NMR server could not be reached!", touched |-> <<"server_path">>]
    ELSE IF ~dest_exists THEN [text |-> "Given destination folder not found!", touched |-> <<"server_path", "dest_path">>]
    ELSE IF Len(check_path_list) = 0 THEN [text |-> "No folders exist for this date!", touched |-> <<"server_path", "dest_path", "check_paths">>]
    ELSE [text |-> "", touched |-> <<"server_path", "dest_path", "check_paths", "prog_bar">>]

\* the setup of check_nmr in the order of its statements: the message of the
\* first test that fails ("" if none does) and what has been touched by then
setup ==
    IF ~dest_exists THEN [text |-> "Given destination folder not found!", touched |-> <<"dest_path">>]
    ELSE IF ~server_ok THEN [text |-> "The NMR server could not be reached!", touched |-> <<"dest_path", "server_path">>]
    ELSE IF Len(check_path_list) = 0 THEN [text |-> "No folders exist for this date!", touched |-> <<"dest_path", "server_path", "check_paths">>]
    ELSE [text |-> "", touched |-> <<"dest_path", "server_path", "check_paths", "prog_bar">>]

\* Worker.run calls check_nmr: everything up to the loop over the candidates
StartScan ==
    /\ pc = "idle"
    /\ scans < MaxScans
    /\ scans' = scans + 1
    /\ handled' = <<>>
    /\ dest0' = dest
    /\ repeat' = clean
    /\ clean' = FALSE
    /\ exc' = "none"
    /\ pos' = 1
    /\ touched' = setup.touched
    /\ IF setup.text # ""
       THEN /\ output_list' = fail_fast(setup.text)
            /\ pc' = "returned"
            /\ entered' = FALSE
            /\ UNCHANGED <<cands, prog_state, prog_max>>
       ELSE /\ output_list' = initial_output
            /\ cands' = Flatten(check_path_list)
            /\ prog_state' = 0
            /\ prog_max' = get_number_spectra(check_path_list)
            /\ pc' = "checking"
            /\ entered' = TRUE
    /\ UNCHANGED <<env, completed, emitted>>
    /\ UNCHANGED beside

\* the metadata extraction check_nmr selects by spec_info["manufacturer"]
extract(folder) == IF manufacturer = "bruker" THEN get_metadata_bruker(folder) ELSE get_metadata_agilent(folder)

\* the Agilent shortcut: metadata is read only if the initials occur in folder.name
prefilter(folder) == manufacturer = "agilent" /\ ~Contains(fed_options.initials, folder.name)

\* `hit` when check_nmr reaches `if not hit`: on Agilent it was already set to
\* True by the folder-name test
hit(folder, metadata) ==
    \/ manufacturer = "agilent"
    \/ metadata.initials = fed_options.initials
    \/ fed_options.group = nmr /\ metadata.group = Some(fed_options.initials)

\* the name check_nmr asks for
new_folder_name(folder, metadata) ==
    IF fed_options.group = nmr
    THEN format_name_admin(folder, metadata, fed_options.inc_solv, fed_options.inc_path)
    ELSE format_name(folder, metadata, FALSE, fed_options.inc_init, fed_options.inc_solv, fed_options.nmrcheck_style)

\* a candidate that is not copied: progress moves by one
Skip(outcome, messages) ==
    /\ output_list' = output_list \o messages
    /\ handled' = Append(handled, outcome)
    /\ prog_state' = prog_state + 1
    /\ pos' = pos + 1
    /\ UNCHANGED <<pc, exc, prog_max, dest>>

\* an exception leaves check_nmr
Abort(e) ==
    /\ pc' = "raised"
    /\ exc' = e
    /\ handled' = Append(handled, "raise")
    /\ UNCHANGED <<output_list, pos, prog_state, prog_max, dest>>

\* one pass of the loop body of check_nmr, for the folder at pos
ProcessCandidate ==
    /\ pc = "checking"
    /\ pos <= Len(cands)
    /\ LET folder == cands[pos]
       IN IF prefilter(folder) THEN Skip("prefilter", <<>>)
          ELSE LET r == extract(folder)
               IN IF r.exc = "FileNotFoundError" THEN Skip("no_metadata", <<Msg("No metadata could be found for ", server_location(folder))>>)
                  ELSE IF r.exc = "IndexError" THEN Skip("malformed", <<>>)
                  ELSE IF ~hit(folder, r.md[1]) THEN Skip("no_match", <<>>)
                  ELSE LET n == new_folder_name(folder, r.md[1])
                       IN IF n.exc # "none" THEN Abort(n.exc)
                          ELSE LET c == copy_folder(folder.entries, n.name, dest, writable)
                               IN IF c.exc # "none" THEN Abort(c.exc)
                                  ELSE /\ dest' = c.dest
                                       /\ output_list' = output_list \o c.output
                                       /\ handled' = Append(handled, "copy")
                                       /\ prog_max' = prog_max + 5
                                       /\ prog_state' = prog_state + 5
                                       /\ pos' = pos + 1
                                       /\ UNCHANGED <<pc, exc>>
    /\ UNCHANGED <<manufacturer, fed_options, handler, dirs, dest_exists, server_ok, writable>>
    /\ UNCHANGED <<cands, worker, entered, touched, dest0, clean, repeat>>
    /\ UNCHANGED beside

\* the end of check_nmr after the loop
FinishScan ==
    /\ pc = "checking"
    /\ pos > Len(cands)
    /\ output_list' = Append(output_list, completed_statement)
    /\ pc' = "returned"
    /\ clean' = TRUE
    /\ UNCHANGED <<env, cands, pos, prog_state, prog_max, exc, worker, handled, entered, touched, dest0, repeat>>
    /\ UNCHANGED beside

\* Worker.run after check_nmr returned: completed.emit(output)
WorkerEmit ==
    /\ pc = "returned"
    /\ completed' = completed + 1
    /\ emitted' = output_list
    /\ pc' = "idle"
    /\ UNCHANGED <<env, output_list, cands, pos, prog_state, prog_max, exc, scans, hist>>
    /\ UNCHANGED beside

\* the list Worker.run builds in its except clause
exception_list(e) == <<Msg("Exception", <<>>), Msg(e, <<>>), Msg("Value after * must be an iterable, not NoneType", <<>>), Msg("See log file at:", <<>>), Msg("log.log", <<>>), Msg("for further details", <<>>)>>

\* logging.getLogger().handlers[0].baseFilename: only a FileHandler has one
\* (with no handler installed, logging.exception installs a StreamHandler)
has_baseFilename(h) == h = "file"

\* Worker.run after check_nmr raised: the except clause
WorkerExcept ==
    /\ pc = "raised"
    /\ IF has_baseFilename(handler)
       THEN /\ completed' = completed + 1
            /\ emitted' = exception_list(exc)
       ELSE UNCHANGED <<completed, emitted>>
    /\ pc' = "idle"
    /\ UNCHANGED <<env, output_list, cands, pos, prog_state, prog_max, exc, scans, hist>>
    /\ UNCHANGED beside

\* between two scans the instrument writes a further entry into a spectrum folder
InstrumentWrites ==
    /\ pc = "idle"
    /\ scans < MaxScans
    /\ scans > 0
    /\ \E i \in 1..Len(dirs) : \E j \in 1..Len(dirs[i].folders) :
          /\ ~exists(dirs[i].folders[j].entries[LateName(manufacturer)])
          /\ dirs' = [dirs EXCEPT ![i].folders[j].entries[LateName(manufacturer)] = LateEntry(manufacturer, i, j)]
    /\ clean' = FALSE
    /\ UNCHANGED <<manufacturer, fed_options, handler, dest_exists, server_ok, dest, writable>>
    /\ UNCHANGED <<scan, worker, handled, entered, touched, dest0, repeat>>
    /\ UNCHANGED beside

\* between two scans the write permission on the destination changes
PermissionChanges ==
    /\ pc = "idle"
    /\ scans < MaxScans
    /\ scans > 0
    /\ writable' = ~writable
    /\ clean' = FALSE
    /\ UNCHANGED <<manufacturer, fed_options, handler, dirs, dest_exists, server_ok, dest>>
    /\ UNCHANGED <<scan, worker, handled, entered, touched, dest0, repeat>>
    /\ UNCHANGED beside

Next ==
    \/ StartScan
    \/ ProcessCandidate
    \/ FinishScan
    \/ WorkerEmit
    \/ WorkerExcept
    \/ InstrumentWrites
    \/ PermissionChanges

Spec == Init /\ [][Next]_vars

\* ------------------------------------------------------------------ queue

\* a thread pool that runs two Workers at once
two_threads == 1 + 1

\* self.threadpool.setMaxThreadCount(1)
MaxThreadCount == 1

\* the lists a check_nmr call can return
Outcomes == {fail_fast("Given destination folder not found!"), initial_output \o <<completed_statement>>, initial_output \o <<Msg("Spectrum found: ", mjm), completed_statement>>}

RECURSIVE multiday_loop(_, _)
\* the while loop of multiday_check: the dates handed to single_check, and the
\* OverflowError of date_to_check += timedelta(days=1) on the last date
multiday_loop(date_to_check, end_date) ==
    IF date_to_check = end_date THEN [dates |-> <<>>, exc |-> "none"]
    ELSE IF date_to_check = DateMax THEN [dates |-> <<date_to_check>>, exc |-> "OverflowError"]
    ELSE LET r == multiday_loop(date_to_check + 1, end_date)
         IN [dates |-> <<date_to_check>> \o r.dates, exc |-> r.exc]

multiday_check(initial_date) == multiday_loop(initial_date, Today + 1)

\* the Workers that single_check creates, one per date, numbered in the order
\* of their creation
new_workers(dates) == [i \in 1..Len(dates) |-> [id |-> Len(created) + i, date |-> dates[i]]]

\* single_check for each of the dates: threadpool.start(worker), queued_checks += 1
single_checks(counter, dates) ==
    /\ threadpool' = threadpool \o new_workers(dates)
    /\ created' = created \o new_workers(dates)
    /\ queued_with' = queued_with \o [i \in 1..Len(dates) |-> fed_options]
    /\ queued_checks' = counter + Len(dates)

\* the checks one request asks for: a sweep since the date, or the date alone
requested(multi, date) == IF multi THEN multiday_check(date) ELSE [dates |-> <<date>>, exc |-> "none"]

\* everything of one Worker's check_nmr, which the queue leaves alone
alone == <<env, scan, worker, hist, resolving, naming, configuring, comparing, sanitizing, parsing, probing>>

\* Controller.started: called by the start button or by the repeat timer
started ==
    /\ starts < MaxStarts
    /\ starts' = starts + 1
    /\ single_checks(0, requested(since_button, date_selected).dates)
    /\ status_bar' = IF requested(since_button, date_selected).dates # <<>> THEN "status" ELSE status_bar

\* the start button is clicked
StartButton ==
    /\ frontend = "gui"
    /\ status_bar = "start"
    /\ started
    /\ cancelled' = FALSE
    /\ UNCHANGED <<running, posted, frontend, main, exit_code, timer, repeat_switch, since_button, date_selected>>
    /\ UNCHANGED <<begun, reported, ended, timer_starts, alone, shared>>

\* the single-shot repeat timer runs out
TimerFires ==
    /\ frontend = "gui"
    /\ timer
    /\ timer' = FALSE
    /\ started
    /\ timer_starts' = timer_starts + 1
    /\ UNCHANGED <<running, posted, frontend, main, exit_code, repeat_switch, since_button, date_selected>>
    /\ UNCHANGED <<begun, reported, ended, cancelled, alone, shared>>

\* Controller.interrupted: the cancel button, shown by show_cancel, is clicked
interrupted ==
    /\ frontend = "gui"
    /\ status_bar = "cancel"
    /\ timer' = FALSE
    /\ status_bar' = "start"
    /\ cancelled' = TRUE
    /\ UNCHANGED <<pool, frontend, main, exit_code, repeat_switch, since_button, date_selected>>
    /\ UNCHANGED <<queued_with, created, begun, reported, ended, starts, timer_starts, alone, shared>>

\* MainWindow.repeat_switched: the repeat checkbox is clicked, which
\* adapt_to_spec enables for every spectrometer that allows more than one check
repeat_switched ==
    /\ frontend = "gui"
    /\ repeat_switch' = ~repeat_switch
    /\ UNCHANGED <<pool, frontend, main, exit_code, timer, status_bar, since_button, date_selected>>
    /\ UNCHANGED <<qhist, alone, shared>>

\* the main thread handles signals in the order of their emission: the progress
\* signals of a check come before its completed signal, those of the checks
\* begun after it come later
handled_before(id) == \A i \in 1..Len(signals) : signals[i].id > id

\* Controller.check_ended: the main thread handles the oldest completed signal
check_ended ==
    /\ frontend = "gui"
    /\ posted # <<>>
    /\ handled_before(Head(posted).id)
    /\ bar_max' = 1
    /\ bar_value' = 1
    /\ posted' = Tail(posted)
    /\ ended' = Append(ended, Head(posted).id)
    /\ queued_checks' = IF repeat_switch THEN queued_checks ELSE queued_checks - 1
    /\ timer' = IF repeat_switch THEN TRUE ELSE timer
    /\ status_bar' = IF queued_checks' = 0 THEN "start" ELSE IF repeat_switch THEN "cancel" ELSE status_bar
    /\ UNCHANGED <<threadpool, running, frontend, main, exit_code, repeat_switch, since_button, date_selected>>
    /\ UNCHANGED <<queued_with, created, begun, reported, starts, timer_starts, cancelled, alone>>
    /\ UNCHANGED <<read_by, prog_of, signals>>

\* main() of the command line up to app().exec(): the requested checks are queued
CliMain ==
    /\ frontend = "cli"
    /\ main = "start"
    /\ single_checks(queued_checks, requested(since_button, date_selected).dates)
    /\ IF requested(since_button, date_selected).exc = "none"
       THEN main' = "exec" /\ UNCHANGED exit_code
       ELSE main' = "crashed" /\ exit_code' = 1
    /\ UNCHANGED <<running, posted, frontend, timer, status_bar, repeat_switch, since_button, date_selected>>
    /\ UNCHANGED <<begun, reported, ended, starts, timer_starts, cancelled, alone, shared>>

\* cli_completion_handler: the event loop handles the oldest completed signal
cli_completion_handler ==
    /\ frontend = "cli"
    /\ main = "exec"
    /\ posted # <<>>
    /\ posted' = Tail(posted)
    /\ ended' = Append(ended, Head(posted).id)
    /\ queued_checks' = queued_checks - 1
    /\ IF queued_checks' = 0
       THEN main' = "exited" /\ exit_code' = 0
       ELSE UNCHANGED <<main, exit_code>>
    /\ bar_value' = IF queued_checks' = 0 THEN bar_max ELSE bar_value
    /\ UNCHANGED <<threadpool, running, frontend, timer, status_bar, repeat_switch, since_button, date_selected>>
    /\ UNCHANGED <<queued_with, created, begun, reported, starts, timer_starts, cancelled, alone>>
    /\ UNCHANGED <<read_by, bar_max, prog_of, signals>>

\* the process is alive: the thread pool runs Workers
alive == main \in {"start", "exec"}

\* QThreadPool: a free thread takes the Worker that has waited longest
WorkerBegins ==
    /\ alive
    /\ threadpool # <<>>
    /\ Cardinality(running) < MaxThreadCount
    /\ running' = running \cup {Head(threadpool)}
    /\ threadpool' = Tail(threadpool)
    /\ begun' = Append(begun, Head(threadpool).id)
    /\ UNCHANGED <<queued_checks, posted, front>>
    /\ UNCHANGED <<queued_with, created, reported, ended, starts, timer_starts, cancelled, alone, shared>>

\* Worker.run: check_nmr returns and completed is emitted with its list
RunReturns ==
    /\ alive
    /\ \E w \in running : \E output \in Outcomes :
          /\ running' = running \ {w}
          /\ posted' = Append(posted, [id |-> w.id, list |-> output])
          /\ reported' = Append(reported, w.id)
    /\ UNCHANGED <<queued_checks, threadpool, front>>
    /\ UNCHANGED <<queued_with, created, begun, ended, starts, timer_starts, cancelled, alone, shared>>

\* Worker.run: check_nmr raises and the except clause runs
RunRaises ==
    /\ alive
    /\ \E w \in running :
          /\ running' = running \ {w}
          /\ IF has_baseFilename(handler)
             THEN /\ posted' = Append(posted, [id |-> w.id, list |-> exception_list("TypeError")])
                  /\ reported' = Append(reported, w.id)
             ELSE UNCHANGED <<posted, reported>>
    /\ UNCHANGED <<queued_checks, threadpool, front>>
    /\ UNCHANGED <<queued_with, created, begun, ended, starts, timer_starts, cancelled, alone, shared>>

\* check_nmr is not running and has not run
Quiet ==
    /\ dirs = <<>>
    /\ dest_exists = TRUE
    /\ server_ok = TRUE
    /\ dest = <<>>
    /\ writable = TRUE
    /\ pc = "idle"
    /\ output_list = <<>>
    /\ cands = <<>>
    /\ pos = 1
    /\ prog_state = 0
    /\ prog_max = 0
    /\ exc = "none"
    /\ scans = 0
    /\ completed = 0
    /\ emitted = <<>>
    /\ handled = <<>>
    /\ entered = FALSE
    /\ touched = <<>>
    /\ dest0 = <<>>
    /\ clean = FALSE
    /\ repeat = FALSE

\* no check_nmr of its own: the queue's Workers stand for it
NoScan ==
    /\ manufacturer = "bruker"
    /\ fed_options = Options(stu, mjm, TRUE, TRUE, FALSE, "False")
    /\ Quiet


\* the desktop app logs to a file, or to stdout when launched from the command
\* line; the command line logs to stdout
InitQueue ==
    /\ NoScan
    /\ NoPaths
    /\ NoNames
    /\ NoConfig
    /\ NoCompare
    /\ NoSanitize
    /\ NoParse
    /\ NoProbe
    /\ frontend \in {"gui", "cli"}
    /\ handler \in (IF frontend = "gui" THEN {"file", "stream"} ELSE {"stream"})
    /\ main = (IF frontend = "gui" THEN "exec" ELSE "start")
    /\ repeat_switch \in (IF frontend = "gui" THEN BOOLEAN ELSE {FALSE})
    /\ since_button \in BOOLEAN
    /\ date_selected \in 1..DateMax
    /\ queued_checks = 0
    /\ threadpool = <<>>
    /\ running = {}
    /\ posted = <<>>
    /\ exit_code = -1
    /\ timer = FALSE
    /\ status_bar = "start"
    /\ created = <<>>
    /\ begun = <<>>
    /\ reported = <<>>
    /\ ended = <<>>
    /\ starts = 0
    /\ timer_starts = 0
    /\ cancelled = FALSE
    /\ queued_with = <<>>
    /\ read_by = {}
    /\ bar_max = 1
    /\ bar_value = 1
    /\ prog_of = {}
    /\ signals = <<>>

NextQueue ==
    \/ StartButton
    \/ TimerFires
    \/ interrupted
    \/ repeat_switched
    \/ check_ended
    \/ CliMain
    \/ cli_completion_handler
    \/ WorkerBegins
    \/ RunReturns
    \/ RunRaises

SpecQueue == InitQueue /\ [][NextQueue]_vars

\* ------------------------------------------------------------------ sweep
\* The desktop app during the checks of one start: the Worker's thread inside
\* check_nmr, and the main thread with the options and the progress bar.

\* get_number_spectra of the paths of a day
n_spectra == 2

\* the initials the user may type, none of them the wildcard
TypedInitials == {<<>>, mjm, <<"x", "y", "z">>}

\* the desktop app with nothing started, the bar as check_ended leaves it
InitSweep ==
    /\ NoScan
    /\ NoPaths
    /\ NoNames
    /\ NoConfig
    /\ NoCompare
    /\ NoSanitize
    /\ NoParse
    /\ NoProbe
    /\ frontend = "gui"
    /\ handler = "file"
    /\ main = "exec"
    /\ repeat_switch = FALSE
    /\ since_button \in BOOLEAN
    /\ date_selected \in 1..Today
    /\ queued_checks = 0
    /\ threadpool = <<>>
    /\ running = {}
    /\ posted = <<>>
    /\ exit_code = -1
    /\ timer = FALSE
    /\ status_bar = "start"
    /\ created = <<>>
    /\ begun = <<>>
    /\ reported = <<>>
    /\ ended = <<>>
    /\ starts = 0
    /\ timer_starts = 0
    /\ cancelled = FALSE
    /\ queued_with = <<>>
    /\ read_by = {}
    /\ bar_max = 1
    /\ bar_value = 1
    /\ prog_of = {}
    /\ signals = <<>>

\* Worker.run calls check_nmr, which logs the options and tests the destination
run ==
    /\ threadpool # <<>>
    /\ Cardinality(running) < MaxThreadCount
    /\ running' = running \cup {Head(threadpool)}
    /\ threadpool' = Tail(threadpool)
    /\ begun' = Append(begun, Head(threadpool).id)
    /\ read_by' = read_by \cup {<<Head(threadpool).id, fed_options>>}
    /\ prog_of' = prog_of \cup {[id |-> Head(threadpool).id, prog_state |-> -1]}
    /\ UNCHANGED <<queued_checks, posted, front>>
    /\ UNCHANGED <<queued_with, created, reported, ended, starts, timer_starts, cancelled, alone>>
    /\ UNCHANGED <<bar_max, bar_value, signals>>

\* check_nmr: "Initialize progress bar", on the Worker's thread
initialize_progress ==
    /\ \E p \in prog_of :
          /\ p.prog_state = -1
          /\ bar_max' = n_spectra
          /\ signals' = Append(signals, [id |-> p.id, value |-> 0])
          /\ prog_of' = (prog_of \ {p}) \cup {[id |-> p.id, prog_state |-> 0]}
    /\ UNCHANGED <<pool, front, qhist, alone, read_by, bar_value>>

\* check_nmr: one folder of the loop is compared with the options and counted
iterate_progress ==
    /\ \E p \in prog_of :
          /\ p.prog_state >= 0
          /\ p.prog_state < n_spectra
          /\ read_by' = read_by \cup {<<p.id, fed_options>>}
          /\ signals' = Append(signals, [id |-> p.id, value |-> p.prog_state + 1])
          /\ prog_of' = (prog_of \ {p}) \cup {[id |-> p.id, prog_state |-> p.prog_state + 1]}
    /\ UNCHANGED <<pool, front, qhist, alone, bar_max, bar_value>>

\* check_nmr: the last folder of the loop matches the options and is copied,
\* and the bar is moved five further instead of one
copied_progress ==
    /\ \E p \in prog_of :
          /\ p.prog_state = n_spectra - 1
          /\ read_by' = read_by \cup {<<p.id, fed_options>>}
          /\ bar_max' = bar_max + 5
          /\ signals' = Append(signals, [id |-> p.id, value |-> p.prog_state + 5])
          /\ prog_of' = (prog_of \ {p}) \cup {[id |-> p.id, prog_state |-> p.prog_state + 5]}
    /\ UNCHANGED <<pool, front, qhist, alone, bar_value>>

\* the prog_state check_nmr has reached when it returns the list: nothing is
\* counted before the destination is tested, and the copied folder counts five
returned_at(output) ==
    IF output = fail_fast("Given destination folder not found!") THEN -1
    ELSE IF Len(output) > Len(initial_output) + 1 THEN n_spectra - 1 + 5
    ELSE n_spectra

\* Worker.run: check_nmr returns and completed is emitted with its list
completed_emit ==
    /\ \E w \in running : \E output \in Outcomes :
          /\ [id |-> w.id, prog_state |-> returned_at(output)] \in prog_of
          /\ running' = running \ {w}
          /\ posted' = Append(posted, [id |-> w.id, list |-> output])
          /\ reported' = Append(reported, w.id)
          /\ prog_of' = {p \in prog_of : p.id # w.id}
    /\ UNCHANGED <<queued_checks, threadpool, front>>
    /\ UNCHANGED <<queued_with, created, begun, ended, starts, timer_starts, cancelled, alone>>
    /\ UNCHANGED <<read_by, bar_max, bar_value, signals>>

\* single_check's update_progress: the main thread handles the oldest progress
\* signal, once the completed signals emitted before it are handled
update_progress ==
    /\ signals # <<>>
    /\ \A i \in 1..Len(posted) : posted[i].id >= Head(signals).id
    /\ bar_value' = Head(signals).value
    /\ signals' = Tail(signals)
    /\ UNCHANGED <<pool, front, qhist, alone, read_by, bar_max, prog_of>>

\* Controller.initials_changed: the user types in the initials box; the
\* options dict written is the one every Worker was created with
initials_changed ==
    /\ \E new_initials \in TypedInitials :
          fed_options' = IF Len(new_initials) = 0 THEN fed_options ELSE [fed_options EXCEPT !.initials = new_initials]
    /\ UNCHANGED <<manufacturer, handler, dirs, dest_exists, server_ok, dest, writable>>
    /\ UNCHANGED <<scan, worker, hist, beside>>

NextSweep ==
    \/ StartButton
    \/ run
    \/ initialize_progress
    \/ iterate_progress
    \/ copied_progress
    \/ completed_emit
    \/ update_progress
    \/ check_ended
    \/ initials_changed

SpecSweep == InitSweep /\ [][NextSweep]_vars

\* ------------------------------------------------------------------ paths

\* the year of date.today(), and the year before
this_year == "2024"

last_year == "2023"

\* range(2, 20): the numbers of the overflow folders that are probed
overflow_first == 2

overflow_stop == 20

\* self.all_groups in the order of the dict
all_groups == <<[group |-> "stu", name |-> "studer"], [group |-> "nmr", name |-> "nmrlab"]>>

\* groups[group], or KeyError
known_group(group) == \E i \in 1..Len(all_groups) : all_groups[i].group = group

group_name(group) == all_groups[CHOOSE i \in 1..Len(all_groups) : all_groups[i].group = group].name

\* a path template is the sequence of its parts: the <> fields and the
\* strftime codes are parts of their own
\* str.replace of a field by a text
replace(path, field, text) == <<>> \o [i \in 1..Len(path) |-> IF path[i] = field THEN text ELSE path[i]]

\* check_date.strftime(format): the codes that occur
strftime(check_date, format) == replace(replace(format, "%Y", check_date.year), "%b%d", check_date.day)

\* .replace("<", "").replace(">", "") on the fields that were not replaced
strip_brackets(path) == replace(replace(replace(replace(path, "<spec_dir>", "spec_dir"), "<date>", "date"), "<group>", "group"), "<group name>", "group name")

\* the first replacements of a raw path: <spec_dir>, <date>, then strftime
dated_path(spec_info, check_date, path) == strftime(check_date, replace(replace(path, "<spec_dir>", spec_info.spec_dir), "<date>", strftime(check_date, spec_info.date[1])[1]))

\* the replacements for one group
group_path(path, group, name) == strip_brackets(replace(replace(path, "<group>", group), "<group name>", name))

RECURSIVE Concat(_)
\* the lists of a list, one after the other
Concat(lists) == IF lists = <<>> THEN <<>> ELSE Head(lists) \o Concat(Tail(lists))

\* the wildcard branch for one path: after each group the list built so far is
\* added to check_path_list again
wild_paths(path) == Concat([i \in 1..Len(all_groups) |-> [j \in 1..i |-> group_path(path, all_groups[j].group, all_groups[j].name)]])

\* path.with_name(path.name + "_" + str(num))
with_name(path, num) == path \o <<"_">> \o str(num)

\* the directory of which path is an overflow folder (one or two digits after "_")
overflow_base(path) ==
    IF Len(path) > 2 /\ path[Len(path) - 1] = "_" THEN SubSeq(path, 1, Len(path) - 2)
    ELSE IF Len(path) > 3 /\ path[Len(path) - 2] = "_" THEN SubSeq(path, 1, Len(path) - 3)
    ELSE path

is_overflow(path) == overflow_base(path) # path

\* Path.exists() on the share: the instruments listed have their directories,
\* each with the overflow folders of the numbers listed
exists_on_share(path) ==
    /\ path # <<>>
    /\ path[1] \in share.present
    /\ is_overflow(path) => \E num \in share.nums : path = with_name(overflow_base(path), num)

\* a probe that does not stop at the first missing number
overflow_paths_all(path, num) == SelectSeq(<<>> \o [k \in 1..(overflow_stop - num) |-> with_name(path, num + k - 1)], exists_on_share)

RECURSIVE overflow_paths(_, _)
\* the overflow folders of a path from num on, up to the first that is missing
overflow_paths(path, num) ==
    IF num < overflow_stop /\ exists_on_share(with_name(path, num))
    THEN <<with_name(path, num)>> \o overflow_paths(path, num + 1)
    ELSE <<>>

\* what get_check_paths raises before it has built its own paths: formatted_date
\* is unbound without a "date" entry, groups[group] fails for an unknown group
own_exc(spec_info, raw_path_list, group, wild_group) ==
    IF raw_path_list = <<>> THEN "none"
    ELSE IF spec_info.date = None THEN "UnboundLocalError"
    ELSE IF ~wild_group /\ ~known_group(group) THEN "KeyError"
    ELSE "none"

\* check_path_list when the include loop is reached: the paths of the
\* instrument itself that exist, then their overflow folders
own_paths(spec_info, raw_path_list, check_date, group, wild_group) ==
    LET formatted == [i \in 1..Len(raw_path_list) |-> dated_path(spec_info, check_date, raw_path_list[i])]
        path_list == IF wild_group
                           THEN Concat([i \in 1..Len(formatted) |-> wild_paths(formatted[i])])
                           ELSE [i \in 1..Len(formatted) |-> group_path(formatted[i], group, group_name(group))]
        existing == SelectSeq(path_list, exists_on_share)
    IN existing \o Concat([i \in 1..Len(existing) |-> overflow_paths(existing[i], overflow_first)])

\* an instrument that includes no other
get_check_paths_alone(info, spec, check_date, group, wild_group) ==
    LET spec_info == info[spec]
        raw_path_list == IF check_date.year # this_year /\ spec_info.archives # None
                         THEN spec_info.check_paths \o spec_info.archives[1]
                         ELSE spec_info.check_paths
        extended == [info EXCEPT ![spec].check_paths = raw_path_list]
    IN IF own_exc(spec_info, raw_path_list, group, wild_group) # "none"
       THEN [paths |-> <<>>, info |-> extended, exc |-> own_exc(spec_info, raw_path_list, group, wild_group)]
       ELSE [paths |-> own_paths(spec_info, raw_path_list, check_date, group, wild_group), info |-> extended, exc |-> "none"]

RECURSIVE get_check_paths(_, _, _, _, _)
RECURSIVE include_loop(_, _, _, _, _, _)
\* get_check_paths: the resolved paths, the configuration as the call leaves it
\* (raw_path_list is spec_info["check_paths"] itself, so extend() changes it),
\* and the exception if one is raised
get_check_paths(info, spec, check_date, group, wild_group) ==
    LET spec_info == info[spec]
        raw_path_list == IF check_date.year # this_year /\ spec_info.archives # None
                         THEN spec_info.check_paths \o spec_info.archives[1]
                         ELSE spec_info.check_paths
        extended == [info EXCEPT ![spec].check_paths = raw_path_list]
        last_group == IF wild_group /\ raw_path_list # <<>> THEN all_groups[Len(all_groups)].group ELSE group
    IN IF own_exc(spec_info, raw_path_list, group, wild_group) # "none"
       THEN [paths |-> <<>>, info |-> extended, exc |-> own_exc(spec_info, raw_path_list, group, wild_group)]
       ELSE IF spec_info.include = None
       THEN [paths |-> own_paths(spec_info, raw_path_list, check_date, group, wild_group), info |-> extended, exc |-> "none"]
       ELSE include_loop(extended, spec_info.include[1], check_date, last_group, wild_group, own_paths(spec_info, raw_path_list, check_date, group, wild_group))

\* for included_spec in spec_info["include"]: check_path_list.extend(...)
include_loop(info, included, check_date, group, wild_group, path_list) ==
    IF included = <<>> THEN [paths |-> path_list, info |-> info, exc |-> "none"]
    ELSE LET r == get_check_paths(info, Head(included), check_date, group, wild_group)
         IN IF r.exc # "none"
            THEN [paths |-> <<>>, info |-> r.info, exc |-> r.exc]
            ELSE include_loop(r.info, Tail(included), check_date, group, wild_group, path_list \o r.paths)

\* the instruments of a configuration
Specs == {"400er", "300er", "hf"}

\* the path templates and the date format of the configurations drawn
normal_path == <<"<spec_dir>", "<group>", "<date>">>

archive_path == <<"<spec_dir>", "archive", "%Y", "<group name>", "<date>">>

date_format == <<"%b%d">>

\* the instruments an instrument may include: none that includes it in turn
Includes(spec) ==
    IF spec = "400er" THEN {None, Some(<<"300er">>), Some(<<"300er", "hf">>)}
    ELSE IF spec = "300er" THEN {None, Some(<<"hf">>)}
    ELSE {None}

\* the entries an instrument can have: archives, the date format and include
\* are optional
SpecInfos(spec) ==
    {[spec_dir |-> spec, check_paths |-> <<normal_path>>, archives |-> a, date |-> d, include |-> i] :
        a \in (IF spec = "hf" THEN {None} ELSE {None, Some(<<archive_path>>)}),
        d \in (IF spec = "hf" THEN {None, Some(date_format)} ELSE {Some(date_format)}),
        i \in Includes(spec)}

\* the dates checked: one of this year, one of last year
CheckDates == {[year |-> y, day |-> "Oct16"] : y \in {this_year, last_year}}

\* the instruments that have directories on the share
Present == {{}, {"300er"}, {"400er"}, {"400er", "300er"}, Specs}

InitPaths ==
    /\ NoScan
    /\ handler = "none"
    /\ NoQueue
    /\ NoNames
    /\ NoConfig
    /\ NoCompare
    /\ NoSanitize
    /\ NoParse
    /\ NoProbe
    /\ specs_info \in [Specs -> UNION {SpecInfos(spec) : spec \in Specs}]
    /\ \A spec \in Specs : specs_info[spec] \in SpecInfos(spec)
    /\ loaded = specs_info
    /\ share \in [present : Present, nums : {{}, {overflow_first}, {overflow_first + 1}, {overflow_first, overflow_first + 1}}]
    /\ called = <<>>
    /\ resolved = <<>>
    /\ path_exc = "none"
    /\ calls = 0
    /\ included_alone = <<>>

\* spec_info["include"], empty if there is none
included_specs(spec_info) == IF spec_info.include = None THEN <<>> ELSE spec_info.include[1]

\* who asks: a member of a known group, of a group the configuration does not
\* list, or someone searching all groups
Requesters == {[group |-> "stu", wild_group |-> FALSE], [group |-> "xyz", wild_group |-> FALSE], [group |-> "stu", wild_group |-> TRUE]}

\* one check resolves its paths: the configuration it leaves is the one the
\* next check of the process finds
ResolvePaths ==
    /\ calls < MaxCalls
    /\ calls' = calls + 1
    /\ \E spec \in Specs, check_date \in CheckDates, user \in Requesters :
          LET r == get_check_paths(specs_info, spec, check_date, user.group, user.wild_group)
          IN /\ called' = [spec |-> spec, check_date |-> check_date, group |-> user.group, wild_group |-> user.wild_group]
             /\ resolved' = r.paths
             /\ path_exc' = r.exc
             /\ specs_info' = r.info
             /\ included_alone' = [i \in 1..Len(included_specs(specs_info[spec])) |->
                                     [paths |-> get_check_paths(specs_info, included_specs(specs_info[spec])[i], check_date, user.group, user.wild_group).paths,
                                      exc |-> get_check_paths(specs_info, included_specs(specs_info[spec])[i], check_date, user.group, user.wild_group).exc]]
    /\ UNCHANGED <<loaded, share, env, scan, worker, hist, queue, naming, configuring, comparing, sanitizing, parsing, probing>>

NextPaths == ResolvePaths

SpecPaths == InitPaths /\ [][NextPaths]_vars

\* the overflow folders a day's directories can have: none, a run from 2 that
\* ends early, a run that starts at 3, a run with a gap, and all up to 19, 20
\* and 21
OverflowSets ==
    {{}, {overflow_first}, {overflow_first, overflow_first + 1}, overflow_first..(overflow_stop - 1), overflow_first..overflow_stop,
     overflow_first..(overflow_stop + 1), (overflow_first + 1)..overflow_stop, (overflow_first..overflow_stop) \ {overflow_stop \div 2}}

\* the checks of a process on shares with many overflow folders; only the
\* first instrument's entry varies, in whether it includes the second
InitOverflow ==
    /\ NoScan
    /\ handler = "none"
    /\ NoQueue
    /\ NoNames
    /\ NoConfig
    /\ NoCompare
    /\ NoSanitize
    /\ NoParse
    /\ NoProbe
    /\ specs_info \in [Specs -> UNION {SpecInfos(spec) : spec \in Specs}]
    /\ specs_info["400er"] \in {i \in SpecInfos("400er") : i.archives = None /\ i.include \in {None, Some(<<"300er">>)}}
    /\ \A spec \in Specs \ {"400er"} : specs_info[spec] = [spec_dir |-> spec, check_paths |-> <<normal_path>>, archives |-> None, date |-> Some(date_format), include |-> None]
    /\ loaded = specs_info
    /\ share \in [present : {{"400er"}, {"400er", "300er"}}, nums : OverflowSets]
    /\ called = <<>>
    /\ resolved = <<>>
    /\ path_exc = "none"
    /\ calls = 0
    /\ included_alone = <<>>

SpecOverflow == InitOverflow /\ [][NextPaths]_vars

\* ------------------------------------------------------------------ naming

\* the options that bear on the name, for a member of a group and for the
\* administrative group
NameOptions ==
    {Options(g, mjm, i, s, n, p) : g \in {stu, nmr}, i \in BOOLEAN, s \in BOOLEAN, n \in BOOLEAN, p \in {"False", "True", "before", "after"}}

\* a Bruker spectrum whose sample description has a character that is not
\* allowed in a name
SpecialFolder == Folder(<<"2", "0">>, Day, TRUE, <<<<stu, mjm, <<"5", "+", "0">>, <<"1">>>>, Details>>, BrukerA)

\* an Agilent sample with two experiments that were run at different magnets,
\* and one whose second experiment has a text file of fewer than four lines
f300 == <<"3", "0", "0">>

TwoExperiments == Folder(<<"m", "j", "m", "5", "6">>, Group, FALSE, <<>>, Entries(Absent, Absent, Absent, Absent, Dir(1, 0, Text(f500)), Dir(2, 0, Text(f300))))

ShortSecond == Folder(<<"m", "j", "m", "7", "8">>, Group, FALSE, <<>>, Entries(Absent, Absent, Absent, Absent, Dir(1, 0, Text(f500)), Dir(2, 0, ShortText)))

\* an Agilent sample whose name, given by the user who submitted it, has a
\* character that is not allowed in a name
PlusNamed == Folder(<<"m", "j", "m", "+", "1">>, Group, FALSE, <<>>, AgilentA)

InitNames ==
    /\ Quiet
    /\ handler = "none"
    /\ NoQueue
    /\ NoPaths
    /\ NoConfig
    /\ NoCompare
    /\ NoSanitize
    /\ NoParse
    /\ NoProbe
    /\ manufacturer \in {"bruker", "agilent"}
    /\ fed_options \in NameOptions
    /\ named \in (IF manufacturer = "bruker" THEN BrukerFolders \cup {SpecialFolder} ELSE AgilentFolders \cup {TwoExperiments, ShortSecond, PlusNamed})
    /\ name_out = <<>>

\* check_nmr's formatting step for a folder whose metadata could be read
FormatName ==
    /\ name_out = <<>>
    /\ extract(named).exc = "none"
    /\ name_out' = Some(new_folder_name(named, extract(named).md[1]))
    /\ UNCHANGED <<named, env, scan, worker, hist, queue, resolving, configuring, comparing, sanitizing, parsing, probing>>

NextNames == FormatName

SpecNames == InitNames /\ [][NextNames]_vars

\* ------------------------------------------------------------------ config

\* a value of a table: a text, or a table of its own
Str(text) == [dict |-> FALSE, v |-> text]

Table(entries) == [dict |-> TRUE, v |-> entries]

\* dict.update(), and d[k] = v for a key that may be new
dict_update(d, e) == [k \in DOMAIN d \cup DOMAIN e |-> IF k \in DOMAIN e THEN e[k] ELSE d[k]]

\* the entry extend_user_config and load_user_config_json put under [paths]
placeholder_paths == "linux" :> Str("overwrite with default mount point")

\* an extend_user_config in which the defaults replace what the user has set
extend_user_config_defaults(user, app) ==
    IF "options" \notin DOMAIN user THEN [exc |-> "KeyError", config |-> user]
    ELSE [exc |-> "none", config |-> dict_update(user, "options" :> dict_update(user["options"], app["default_options"]))]

\* extend_user_config: the options the user has not set are filled from the
\* defaults, and [paths] is added if the user's config has none
extend_user_config(user, app) ==
    IF "options" \notin DOMAIN user THEN [exc |-> "KeyError", config |-> user]
    ELSE LET filled == dict_update(user, "options" :> dict_update(app["default_options"], user["options"]))
         IN [exc |-> "none", config |-> IF "paths" \in DOMAIN user THEN filled ELSE dict_update(filled, "paths" :> placeholder_paths)]

\* update_app_config for one entry of a table the app config has: a table
\* updates the table that is there, anything else replaces what is there
update_entry(old, k, v) ==
    IF ~v.dict THEN [exc |-> "none", v |-> v]
    ELSE IF k \notin DOMAIN old THEN [exc |-> "KeyError", v |-> v]
    ELSE IF ~old[k].dict THEN [exc |-> "AttributeError", v |-> v]
    ELSE [exc |-> "none", v |-> Table(dict_update(old[k].v, v.v))]

\* the entries update_app_config goes through: those of the tables the app
\* config has as well
update_targets(app, config) == UNION {{<<t, k>> : k \in DOMAIN config[t]} : t \in DOMAIN config \cap DOMAIN app}

\* update_app_config: the app config with the entries of the given config put
\* in, or the exception of an entry that cannot be put in
update_app_config(app, config) ==
    LET excs == {update_entry(app[tk[1]], tk[2], config[tk[1]][tk[2]]).exc : tk \in update_targets(app, config)} \ {"none"}
    IN IF excs # {} THEN [exc |-> CHOOSE e \in excs : TRUE, config |-> app]
       ELSE [exc |-> "none",
             config |-> [t \in DOMAIN app |->
                            IF t \in DOMAIN config
                            THEN [k \in DOMAIN app[t] \cup DOMAIN config[t] |-> IF k \in DOMAIN config[t] THEN update_entry(app[t], k, config[t][k]).v ELSE app[t][k]]
                            ELSE app[t]]]

\* the app's config.toml as loaded: default options, paths under the names
\* platform.system() gives, groups with a nested table, spectrometers
AppConfig ==
    "default_options" :> ("initials" :> Str("xyz") @@ "group" :> Str("stu"))
    @@ "paths" :> ("Linux" :> Str("/mnt/nmr") @@ "Windows" :> Str("N:") @@ "update" :> Str("update.txt"))
    @@ "groups" :> ("stu" :> Str("studer") @@ "other" :> Table("abc" :> Str("abcgroup")))
    @@ "spectrometers" :> ("400er" :> Table("spec_dir" :> Str("400er")))

\* the tables a user's config.toml can have
UserOptions == {[k \in keys |-> Str(IF k = "initials" THEN "mue" ELSE IF k = "group" THEN "gil" ELSE "red")] : keys \in SUBSET {"initials", "group", "colour"}}

UserPaths == {"Linux" :> Str("/home/nmr"), "linux" :> Str("/home/nmr")}

UserGroups == {"new" :> Str("newgroup"), "stu" :> Str("changed"), "other" :> Table("def" :> Str("defgroup")), "extra" :> Table("q" :> Str("qgroup"))}

\* a spectrometer of the user's own
UserSpecs == {"500er" :> Table("spec_dir" :> Str("500er"))}

UserNotes == {"note" :> Str("mine")}

\* a config.toml with the tables given, each None or Some(table)
toml(options, user_paths, groups, spectrometers, notes) ==
    [t \in {n \in {"options", "paths", "groups", "spectrometers", "notes"} :
                \/ n = "options" /\ options # None
                \/ n = "paths" /\ user_paths # None
                \/ n = "groups" /\ groups # None
                \/ n = "spectrometers" /\ spectrometers # None
                \/ n = "notes" /\ notes # None} |->
        IF t = "options" THEN options[1] ELSE IF t = "paths" THEN user_paths[1] ELSE IF t = "groups" THEN groups[1] ELSE IF t = "spectrometers" THEN spectrometers[1] ELSE notes[1]]

Optional(S) == {None} \cup {Some(x) : x \in S}

\* what can be at the user config path: nothing, a config.json of an old
\* version next to it, or a config.toml
UserFiles ==
    {[kind |-> "none", config |-> <<>>]}
    \cup {[kind |-> "json", config |-> o] : o \in UserOptions}
    \cup {[kind |-> "toml", config |-> toml(o, p, g, sp, n)] : o \in Optional(UserOptions), p \in Optional(UserPaths), g \in Optional(UserGroups), sp \in Optional(UserSpecs), n \in Optional(UserNotes)}

InitConfig ==
    /\ NoScan
    /\ handler = "none"
    /\ NoQueue
    /\ NoPaths
    /\ NoNames
    /\ NoCompare
    /\ NoSanitize
    /\ NoParse
    /\ NoProbe
    /\ app_config = AppConfig
    /\ user_config = <<>>
    /\ user_file \in UserFiles
    /\ found_file = user_file
    /\ config_exc = "none"
    /\ config_done = FALSE

\* Config.__init__ with a config.toml at the user config path
LoadUser ==
    /\ ~config_done
    /\ user_file.kind = "toml"
    /\ config_done' = TRUE
    /\ LET extended == extend_user_config(user_file.config, app_config)
           updated == update_app_config(app_config, extended.config)
       IN IF extended.exc # "none"
          THEN config_exc' = extended.exc /\ UNCHANGED <<user_config, app_config>>
          ELSE /\ user_config' = extended.config
               /\ config_exc' = updated.exc
               /\ app_config' = updated.config
    /\ UNCHANGED <<user_file, found_file, env, scan, worker, hist, queue, resolving, naming, comparing, sanitizing, parsing, probing>>

\* Config.__init__ with only a config.json: it is converted to a config.toml
\* and removed
LoadJson ==
    /\ ~config_done
    /\ user_file.kind = "json"
    /\ config_done' = TRUE
    /\ user_file' = [kind |-> "toml", config |-> "options" :> user_file.config @@ "paths" :> placeholder_paths]
    /\ user_config' = extend_user_config("options" :> user_file.config @@ "paths" :> placeholder_paths, app_config).config
    /\ UNCHANGED <<app_config, found_file, config_exc, env, scan, worker, hist, queue, resolving, naming, comparing, sanitizing, parsing, probing>>

\* Config.__init__ with no user config: one is made from the defaults and saved
CreateUser ==
    /\ ~config_done
    /\ user_file.kind = "none"
    /\ config_done' = TRUE
    /\ user_config' = extend_user_config("options" :> <<>>, app_config).config
    /\ user_file' = [kind |-> "toml", config |-> user_config']
    /\ UNCHANGED <<app_config, found_file, config_exc, env, scan, worker, hist, queue, resolving, naming, comparing, sanitizing, parsing, probing>>

NextConfig == LoadUser \/ LoadJson \/ CreateUser

SpecConfig == InitConfig /\ [][NextConfig]_vars

\* ------------------------------------------------------------------ comparing two folders

\* a third Bruker measurement: its own fid, and an acqus that differs from
\* BrukerA's in content but has the same size and modification time
BrukerTwin == Entries(File(5, 3), Absent, File(2, 1), PData, Absent, Absent)

\* the measurements on the server; no two have a fid or audita.txt in common
Measurements == <<BrukerA, BrukerB, BrukerTwin, AgilentA, AgilentB>>

\* what shutil.copytree can have left of a measurement in the destination: a
\* copy of the folder, complete or interrupted, with size and times preserved
copies(entries) == {[x \in EntryNames |-> IF x \in S THEN entries[x] ELSE Absent] : S \in SUBSET {x \in EntryNames : exists(entries[x])}}

InitCompare ==
    /\ NoScan
    /\ handler = "none"
    /\ NoQueue
    /\ NoPaths
    /\ NoNames
    /\ NoConfig
    /\ NoSanitize
    /\ NoParse
    /\ NoProbe
    /\ \E s \in 1..Len(Measurements), d \in 1..Len(Measurements) :
           \E e \in copies(Measurements[d]) :
               compared = [server |-> [measurement |-> s, entries |-> Measurements[s]], dest |-> [measurement |-> d, entries |-> e]]
    /\ compare_out = <<>>

\* copy_folder's call of compare_spectra(src, target) for a target that exists
CompareSpectra ==
    /\ compare_out = <<>>
    /\ compare_out' = Some(compare_spectra(compared.server.entries, compared.dest.entries))
    /\ UNCHANGED <<compared, env, scan, worker, hist, queue, resolving, naming, configuring, sanitizing, parsing, probing>>

NextCompare == CompareSpectra

SpecCompare == InitCompare /\ [][NextCompare]_vars

\* ------------------------------------------------------------------ sanitizing a name

\* the parts names are composed of here: letters, special characters, and the
\* texts that are the hex codes of those characters
NameParts == {<<"a">>, <<"+">>, <<"*">>, <<"0", "x", "2", "b">>, <<"0", "x", "2", "a">>}

MaxParts == 3

ComposedNames == {Concat(parts) : parts \in SeqsUpTo(NameParts, MaxParts) \ {<<>>}}

InitSanitize ==
    /\ NoScan
    /\ handler = "none"
    /\ NoQueue
    /\ NoPaths
    /\ NoNames
    /\ NoConfig
    /\ NoCompare
    /\ NoParse
    /\ NoProbe
    /\ composed \in ComposedNames
    /\ sanitized = <<>>

\* the last step of format_name on the composed name
Sanitize ==
    /\ sanitized = <<>>
    /\ sanitized' = Some(sanitize(composed))
    /\ UNCHANGED <<composed, env, scan, worker, hist, queue, resolving, naming, configuring, comparing, parsing, probing>>

NextSanitize == Sanitize

SpecSanitize == InitSanitize /\ [][NextSanitize]_vars

\* ------------------------------------------------------------------ the user argument
\* main() of the command line, from the user argument to the options

UserChars == {"*", " ", "m", "j"}

MaxUser == 3

RECURSIVE lstrip(_)
\* str.lstrip(): without the leading whitespace
lstrip(s) == IF s # <<>> /\ s[1] = " " THEN lstrip(Tail(s)) ELSE s

\* main(): "Let user use wild group"
parse_user(user) ==
    IF Take(user, 2) = <<"*">>
    THEN [initials |-> lstrip(Drop(user, 1)), wild_group |-> TRUE]
    ELSE [initials |-> user, wild_group |-> FALSE]

InitUser ==
    /\ NoScan
    /\ handler = "none"
    /\ NoQueue
    /\ NoPaths
    /\ NoNames
    /\ NoConfig
    /\ NoCompare
    /\ NoSanitize
    /\ NoProbe
    /\ args_user \in SeqsUpTo(UserChars, MaxUser)
    /\ user_parsed = <<>>

\* main() sets the initials and wild_group
ParseUser ==
    /\ user_parsed = <<>>
    /\ user_parsed' = Some(parse_user(args_user))
    /\ UNCHANGED <<args_user, env, scan, worker, hist, queue, resolving, naming, configuring, comparing, sanitizing, probing>>

NextUser == ParseUser

SpecUser == InitUser /\ [][NextUser]_vars

\* ------------------------------------------------------------------ Agilent metadata
\* get_metadata_agilent, statement by statement

\* what an experiment's place in a spectrum folder may hold
Experiments == {Absent, Dir(1, 0, NoText), Dir(1, 0, Text(f500)), Dir(2, 0, Text(f300)), Dir(3, 0, ShortText)}

\* spectrum folders with up to two experiments, with and without a plain file
ProbedFolders ==
    { Folder(<<"m", "j", "m", "1", "2">>, Group, FALSE, <<>>, Entries(f, Absent, Absent, Absent, e1, e2)) :
        f \in {Absent, File(1, 1)}, e1 \in Experiments, e2 \in Experiments }

\* folder.iterdir()
iterdir(folder) == SelectSeq(EntryOrder, LAMBDA n : folder.entries[n].k # "absent")

\* the while loop is a dummy: after the for loop there is a break
after_for_again == "while"

after_for == "return"

InitAgilent ==
    /\ NoScan
    /\ handler = "none"
    /\ NoQueue
    /\ NoPaths
    /\ NoNames
    /\ NoConfig
    /\ NoCompare
    /\ NoSanitize
    /\ NoParse
    /\ probed \in ProbedFolders
    /\ agilent_pc = "while"
    /\ visited = 0
    /\ magnet_freq = None
    /\ agilent_md = <<>>

\* while magnet_freq is None:
WhileTest ==
    /\ agilent_pc = "while"
    /\ agilent_pc' = IF magnet_freq = None THEN "for" ELSE "return"
    /\ visited' = 0
    /\ UNCHANGED <<probed, magnet_freq, agilent_md>>
    /\ UNCHANGED <<env, scan, worker, hist, queue, resolving, naming, configuring, comparing, sanitizing, parsing>>

\* for subfolder in folder.iterdir(): the next entry, and its `text` if it has one
ForStep ==
    /\ agilent_pc = "for"
    /\ visited < Len(iterdir(probed))
    /\ LET subfolder == probed.entries[iterdir(probed)[visited + 1]]
       IN IF subfolder.k = "dir" /\ subfolder.text.k # "none"
          THEN IF subfolder.text.k = "short"
               THEN agilent_pc' = "IndexError" /\ UNCHANGED magnet_freq
               ELSE magnet_freq' = Some(subfolder.text.freq) /\ UNCHANGED agilent_pc
          ELSE UNCHANGED <<agilent_pc, magnet_freq>>
    /\ visited' = visited + 1
    /\ UNCHANGED <<probed, agilent_md>>
    /\ UNCHANGED <<env, scan, worker, hist, queue, resolving, naming, configuring, comparing, sanitizing, parsing>>

\* the for loop is exhausted: break
ForEnds ==
    /\ agilent_pc = "for"
    /\ visited = Len(iterdir(probed))
    /\ agilent_pc' = after_for
    /\ UNCHANGED <<probed, visited, magnet_freq, agilent_md>>
    /\ UNCHANGED <<env, scan, worker, hist, queue, resolving, naming, configuring, comparing, sanitizing, parsing>>

\* the metadata dict is built and returned
ReturnMetadata ==
    /\ agilent_pc = "return"
    /\ agilent_pc' = "returned"
    /\ agilent_md' = Some([server_location |-> server_location(probed),
                           group |-> None,
                           initials |-> Take(probed.name, 3),
                           sample_info |-> Some(<<Drop(probed.name, 3)>>),
                           experiment |-> None,
                           solvent |-> None,
                           frequency |-> magnet_freq])
    /\ UNCHANGED <<probed, visited, magnet_freq>>
    /\ UNCHANGED <<env, scan, worker, hist, queue, resolving, naming, configuring, comparing, sanitizing, parsing>>

NextAgilent ==
    \/ WhileTest
    \/ ForStep
    \/ ForEnds
    \/ ReturnMetadata

\* the call runs on: nothing but its own end stops it
SpecAgilent == InitAgilent /\ [][NextAgilent]_vars /\ WF_vars(NextAgilent)

\* ------------------------------------------------------------------ claims

Last(q) == q[Len(q)]

\* the messages the step appends to output_list
Appended == SubSeq(output_list', Len(output_list) + 1, Len(output_list'))

\* the step is a pass of the loop in which copy_folder is called and returns
CopyStep == pc = "checking" /\ pos <= Len(cands) /\ handled' = Append(handled, "copy")

\* the source folder and the desired target name of that call
Source == cands[pos].entries

Desired == new_folder_name(cands[pos], extract(cands[pos]).md[1]).name

\* t is name followed by one or more "-<number>" suffixes
Numbered(name, t) ==
    /\ Len(t) > Len(name) + 1
    /\ Take(t, Len(name)) = name
    /\ t[Len(name) + 1] = "-"
    /\ t[Len(t)] # "-"
    /\ \A i \in (Len(name) + 1)..Len(t) : t[i] = "-" \/ \E d \in 1..10 : t[i] = Digits[d]
    /\ \A i \in (Len(name) + 1)..(Len(t) - 1) : ~(t[i] = "-" /\ t[i + 1] = "-")

\* the existing destination folders that carry the desired name or a numbered variant
Candidates(name) == {t \in DOMAIN dest : t = name \/ Numbered(name, t)}

\* C1: copy_folder never overwrites, modifies or deletes anything that exists
\* in the destination: every existing folder keeps every entry it has, a
\* "Spectrum found" copy goes to a name that did not exist, and a "New files
\* found" repair only fills entries that were absent
C1_NeverOverwrites ==
    [][/\ \A n \in DOMAIN dest : n \in DOMAIN dest' /\ \A e \in EntryNames : exists(dest[n][e]) => dest'[n][e] = dest[n][e]
       /\ \A i \in 1..Len(Appended) :
             /\ Appended[i].pre = "Spectrum found: " => Appended[i].arg \notin DOMAIN dest
             /\ Appended[i].pre = "New files found for: " => Appended[i].arg \in DOMAIN dest]_vars

\* a scan that repaired one existing folder and made a fresh copy beside a
\* different measurement of the same name
C1_Witness ==
    /\ pc = "returned"
    /\ \E i, j \in 1..Len(output_list) : output_list[i].pre = "New files found for: " /\ output_list[j].pre = "Spectrum found: " /\ Numbered(output_list[i].arg, output_list[j].arg)

\* C2: a scan that repeats a completed scan, with the same options and no
\* change to the share, appends no "Spectrum found" / "New files found"
\* message and leaves the destination exactly as it was
C2_Idempotent ==
    (pc = "returned" /\ repeat) =>
        /\ dest = dest0
        /\ \A i \in 1..Len(output_list) : output_list[i].pre \notin {"Spectrum found: ", "New files found for: "}

\* C3: in a call of copy_folder whose desired name is taken, an existing
\* candidate confirmed to be the same measurement means no folder is created;
\* when every candidate is a different measurement and writing is permitted,
\* the source is copied under a numbered name that was not in use and all
\* existing folders are left as they were
C3_Deduplication ==
    [][(CopyStep /\ Desired \in DOMAIN dest) =>
          IF \E t \in Candidates(Desired) : compare_spectra(Source, dest[t]).same
          THEN DOMAIN dest' = DOMAIN dest
          ELSE /\ \A n \in DOMAIN dest : n \in DOMAIN dest' /\ dest'[n] = dest[n]
               /\ writable => \E t \in DOMAIN dest' \ DOMAIN dest :
                                 /\ Numbered(Desired, t)
                                 /\ DOMAIN dest' = DOMAIN dest \cup {t}
                                 /\ dest'[t] = Source
                                 /\ Appended = <<Msg("Spectrum found: ", t)>>
               /\ ~writable => dest' = dest]_vars

\* both cases have happened: a measurement is kept under the existing name of
\* its copy and a different one of the same name sits beside it, numbered
C3_Witness ==
    /\ pc = "returned"
    /\ repeat
    /\ Len(handled) >= 2
    /\ \E n \in DOMAIN dest : \E t \in DOMAIN dest : Numbered(n, t) /\ dest[n] # dest[t]
    /\ dest = dest0

\* C4: when a candidate confirmed to be the same measurement lacks top-level
\* entries of the source (and writing is permitted), the call copies exactly
\* those entries into that folder, leaves its other entries and all other
\* folders as they were, and returns "New files found for: <name>"
C4_Repair ==
    [][CopyStep =>
          \A t \in Candidates(Desired) :
             (compare_spectra(Source, dest[t]).same /\ left_only(Source, dest[t]) # {} /\ writable) =>
                /\ \A e \in EntryNames : dest'[t][e] = IF e \in left_only(Source, dest[t]) THEN Source[e] ELSE dest[t][e]
                /\ \A n \in DOMAIN dest \ {t} : dest'[n] = dest[n]
                /\ DOMAIN dest' = DOMAIN dest
                /\ Appended = <<Msg("New files found for: ", t)>>]_vars

\* a repeat scan has repaired a copy: the folder now holds the late entry
C4_Witness ==
    /\ pc = "returned"
    /\ scans = 2
    /\ \E i \in 1..Len(output_list) : /\ output_list[i].pre = "New files found for: "
                                      /\ exists(dest[output_list[i].arg][LateName(manufacturer)])
                                      /\ ~exists(dest0[output_list[i].arg][LateName(manufacturer)])

\* the rule of the specification: initials equal, or the administrative
\* group and the metadata group equal to the initials
ExactMatch(folder) ==
    /\ extract(folder).exc = "none"
    /\ \/ extract(folder).md[1].initials = fed_options.initials
       \/ fed_options.group = nmr /\ extract(folder).md[1].group = Some(fed_options.initials)

\* C5: a spectrum folder is treated as a match (handed on to naming and
\* copying) if and only if the equality rule holds of its extracted metadata
C5_MatchExactness ==
    \A i \in 1..Len(handled) : handled[i] \in {"copy", "raise"} <=> ExactMatch(cands[i])

\* C6: no metadata content aborts the scan: check_nmr never ends with an
\* exception, and a scan that returns after entering its loop has skipped,
\* rejected or copied every candidate
C6_NoAbort ==
    /\ pc # "raised"
    /\ (pc = "returned" /\ entered) =>
          /\ Len(handled) = Len(cands)
          /\ \A i \in 1..Len(handled) : handled[i] \in {"prefilter", "no_metadata", "malformed", "no_match", "copy"}

\* copy_folder has something to write for the candidate at pos
NeedsWrite == LET f == find_target(Source, Desired, dest) IN ~f.same \/ f.incomplete

\* C7: a copy that fails with a permission error makes copy_folder return the
\* permission message instead of raising; check_nmr goes on to the next
\* candidate, and when it returns it ends with the completion message
C7_PermissionHandled ==
    [][/\ pc' = "raised" => exc' # "PermissionError"
       /\ (CopyStep /\ ~writable /\ NeedsWrite) =>
             /\ Appended = <<PermissionMsg>>
             /\ dest' = dest
             /\ pc' = "checking"
             /\ pos' = pos + 1
       /\ (pc' = "returned" /\ \E i \in 1..Len(output_list') : output_list'[i] = PermissionMsg) => Last(output_list') = completed_statement]_vars

\* the copy of the first candidate was denied, and the scan went through the
\* later candidates to its completion message
C7_Witness ==
    /\ pc = "returned"
    /\ Len(handled) >= 2
    /\ handled[1] = "copy"
    /\ output_list[2] = PermissionMsg
    /\ Last(output_list) = completed_statement

\* C8: once the Worker of every dispatched scan is done, completed has been
\* emitted once per scan, and after an exception the emitted list starts with
\* "Exception" and the exception type
C8_CompletedOnce ==
    /\ pc = "idle" => completed = scans
    /\ (pc = "idle" /\ exc # "none") => (Len(emitted) >= 2 /\ emitted[1] = Msg("Exception", <<>>) /\ emitted[2] = Msg(exc, <<>>))

IsCompletion(m) == m.pre = "Check of "

\* C9: a returned list of a scan that entered its loop ends with the
\* completion message and holds it once; a fail-fast list holds none
C9_CompletionLast ==
    pc = "returned" =>
        IF entered
        THEN /\ IsCompletion(Last(output_list))
             /\ Cardinality({i \in 1..Len(output_list) : IsCompletion(output_list[i])}) = 1
        ELSE \A i \in 1..Len(output_list) : ~IsCompletion(output_list[i])

\* a scan that copied a spectrum has returned
C9_Witness ==
    /\ pc = "returned"
    /\ entered
    /\ Len(output_list) >= 3
    /\ output_list[2].pre = "Spectrum found: "

\* C10: every list check_nmr returns is non-empty and starts with the sentinel
C10_SentinelFirst ==
    pc = "returned" => (Len(output_list) >= 1 /\ output_list[1] = NoNewSpectra)

\* a fail-fast return: the sentinel and the reason
C10_Witness ==
    /\ pc = "returned"
    /\ ~entered
    /\ Len(output_list) = 2

\* C11: at most one check_nmr call is executing at any time, however many
\* checks are queued and also when the repeat timer fires while earlier checks
\* still wait in the thread pool.
C11_OneAtATime == Cardinality(running) <= 1

\* a check runs while two more wait, after the repeat timer has fired
C11_Witness == running # {} /\ Len(threadpool) >= 2 /\ timer_starts >= 1

\* the ids of the Workers in the order of their creation
created_ids == [i \in 1..Len(created) |-> created[i].id]

\* s is the beginning of t
IsPrefix(s, t) == Len(s) <= Len(t) /\ \A i \in 1..Len(s) : s[i] = t[i]

\* the checks that have begun began in the order they were queued, and within
\* one sweep in ascending date
StartInOrder ==
    /\ IsPrefix(begun, created_ids)
    /\ starts <= 1 => \A i, j \in 1..Len(begun) : i < j => created[begun[i]].date < created[begun[j]].date

\* the checks that report completion have begun and report in the order they began
CompleteInOrder ==
    /\ \A i \in 1..Len(reported) : \E j \in 1..Len(begun) : reported[i] = begun[j]
    /\ \A i, j \in 1..Len(reported) : i < j => reported[i] < reported[j]

\* C12: the checks of a multi-day sweep start and complete in the order they
\* were queued, ascending in date, and none starts before the one queued
\* before it has reported completion.
C12_InOrder == since_button => StartInOrder /\ CompleteInOrder /\ Len(begun) <= Len(reported) + 1

\* C13: once the caller has cancelled with interrupted(), the repeat timer
\* starts no further check until the caller starts one again, whatever was
\* queued or running when they cancelled.
C13_CancelHolds == [][cancelled => timer_starts' = timer_starts]_vars

\* a check is still waiting, running or waiting to be handled
pending == threadpool # <<>> \/ running # {} \/ posted # <<>>

\* C18: a command-line check run exits with code 0 once all the checks it
\* queued have completed, for every --date or --multi value: it never ends with
\* another code, and it never sits in the event loop with no check left that
\* could make it exit.
C18_ExitsZero ==
    frontend = "cli" =>
        /\ main # "crashed"
        /\ main = "exec" => pending
        /\ main = "exited" => exit_code = 0 /\ ~pending

\* C14: if the destination root does not exist, check_nmr returns exactly
\* ["No new spectra", "Given destination folder not found!"] having touched
\* nothing but the destination path: the server path is not tested, no path is
\* resolved, no progress is reported and nothing is copied, also when the
\* server is unreachable as well.
C14_DestinationMissing ==
    (pc = "returned" /\ ~dest_exists) =>
        /\ output_list = <<NoNewSpectra, Msg("Given destination folder not found!", <<>>)>>
        /\ touched = <<"dest_path">>
        /\ dest = dest0

\* check_nmr has returned with destination and server both missing
C14_Witness == pc = "returned" /\ ~dest_exists /\ ~server_ok

\* none of the instrument's directories for the date exists
no_folders == \A i \in 1..Len(dirs) : ~dirs[i].exists

\* C15 as stated: if no instrument output directory exists for the date,
\* check_nmr returns exactly ["No new spectra", "no folders exist for this
\* date!"], raises no exception and attempts no copy.
C15_NoFolders ==
    (pc = "returned" /\ dest_exists /\ server_ok /\ no_folders) =>
        /\ output_list = <<NoNewSpectra, Msg("no folders exist for this date!", <<>>)>>
        /\ exc = "none"
        /\ handled = <<>>
        /\ dest = dest0

\* C15 amended: if no instrument output directory exists for the date,
\* check_nmr returns exactly ["No new spectra", "No folders exist for this
\* date!"], raises no exception and attempts no copy.
C15_NoFoldersCapital ==
    (pc = "returned" /\ dest_exists /\ server_ok /\ no_folders) =>
        /\ output_list = <<NoNewSpectra, Msg("No folders exist for this date!", <<>>)>>
        /\ exc = "none"
        /\ handled = <<>>
        /\ dest = dest0

\* check_nmr has returned for a date without directories
C15_Witness == pc = "returned" /\ dest_exists /\ server_ok /\ no_folders

\* C16: a call for an instrument that lists others under include returns every
\* path that resolving each included instrument on its own, for the same date
\* and requester and from the same configuration, returns.
C16_IncludeScanned ==
    path_exc = "none" =>
        \A i \in 1..Len(included_alone) :
            /\ included_alone[i].exc = "none"
            /\ \A k \in 1..Len(included_alone[i].paths) : \E m \in 1..Len(resolved) : resolved[m] = included_alone[i].paths[k]

\* a 400er check has returned a directory of the 300er, which it includes
C16_Witness ==
    /\ calls > 0
    /\ path_exc = "none"
    /\ called.spec = "400er"
    /\ Len(included_alone) > 0
    /\ included_alone[1].paths # <<>>
    /\ \E m \in 1..Len(resolved) : resolved[m][1] = "300er"

RECURSIVE hyphenated(_)
\* the tokens with a hyphen between each two
hyphenated(tokens) ==
    IF tokens = <<>> THEN <<>>
    ELSE IF Len(tokens) = 1 THEN tokens[1]
    ELSE hyphenated(SubSeq(tokens, 1, Len(tokens) - 1)) \o <<"-">> \o tokens[Len(tokens)]

\* the metadata of the folder that is named
named_metadata == extract(named).md[1]

\* the name of the claim: initials if asked for, the sample tokens and the
\* experiment, the solvent if asked for and known, the frequency if known
default_name ==
    (IF fed_options.inc_init THEN named_metadata.initials \o <<"-">> ELSE <<>>)
    \o hyphenated(named_metadata.sample_info[1] \o named_metadata.experiment)
    \o (IF fed_options.inc_solv /\ named_metadata.solvent # None THEN <<"-">> \o named_metadata.solvent[1] ELSE <<>>)
    \o (IF named_metadata.frequency # None THEN <<"_">> \o named_metadata.frequency[1] ELSE <<>>)

\* C17: in the default style for a requester outside the administrative group
\* the name is the sample tokens and the experiment joined by hyphens, with the
\* initials in front exactly if inc_init is set, the solvent behind exactly if
\* inc_solv is set, never the group, and the frequency behind an underscore when
\* there is one; characters that are not allowed are then replaced.
C17_DefaultName ==
    (name_out # <<>> /\ fed_options.group # nmr /\ ~fed_options.nmrcheck_style /\ name_out[1].exc = "none") =>
        name_out[1].name = sanitize(default_name)

\* the title "stu mjm 500 1" / "proton DMSO" named without initials and with the solvent
C17_Witness ==
    /\ name_out # <<>>
    /\ fed_options.group # nmr
    /\ ~fed_options.nmrcheck_style
    /\ ~fed_options.inc_init
    /\ fed_options.inc_solv
    /\ name_out[1].exc = "none"
    /\ name_out[1].name = <<"5", "0", "0", "-", "1", "-", "p", "r", "o", "t", "o", "n", "-", "D", "M", "S", "O">>

\* the options the user's file sets, as it was found
found_options ==
    IF found_file.kind = "json" THEN found_file.config
    ELSE IF found_file.kind = "toml" /\ "options" \in DOMAIN found_file.config THEN found_file.config["options"]
    ELSE <<>>

\* C19: after a Config is constructed its options have every key of the app
\* config's default_options, with the user's value where the user's file sets
\* the key and the default where it does not, and if no user config file
\* existed there is one now.
C19_OptionsFilled ==
    (config_done /\ config_exc = "none") =>
        /\ \A k \in DOMAIN AppConfig["default_options"] :
              /\ k \in DOMAIN user_config["options"]
              /\ user_config["options"][k] = IF k \in DOMAIN found_options THEN found_options[k] ELSE AppConfig["default_options"][k]
        /\ found_file.kind = "none" => user_file.kind = "toml"

\* a Config from a user file that sets the initials and not the group
C19_Witness ==
    /\ config_done
    /\ config_exc = "none"
    /\ found_file.kind = "toml"
    /\ DOMAIN found_options = {"initials"}
    /\ user_config["options"]["initials"] = Str("mue")
    /\ user_config["options"]["group"] = Str("stu")

\* the value now has what the user's value sets: the same text, or every entry
\* of the user's table
has_value(now, set) ==
    IF set.dict THEN now.dict /\ \A k \in DOMAIN set.v : k \in DOMAIN now.v /\ now.v[k] = set.v[k]
    ELSE now = set

\* the value now is the loaded one but for what the user's table sets
kept_value(now, was, set) ==
    IF was.dict /\ set.dict THEN now.dict /\ \A k \in DOMAIN was.v : k \in DOMAIN set.v \/ (k \in DOMAIN now.v /\ now.v[k] = was.v[k])
    ELSE TRUE

\* C20: after a Config is constructed with a user config file, every entry the
\* file sets in a table the app config has too is in the merged app config with
\* the user's value, a new group and a new nested table included, and the
\* entries of the app config the file does not mention are as they were loaded.
C20_UserOverrides ==
    (config_done /\ found_file.kind = "toml" /\ "options" \in DOMAIN found_file.config) =>
        /\ config_exc = "none"
        /\ \A t \in DOMAIN found_file.config \cap DOMAIN AppConfig : \A k \in DOMAIN found_file.config[t] :
              k \in DOMAIN app_config[t] /\ has_value(app_config[t][k], found_file.config[t][k])
        /\ \A t \in DOMAIN AppConfig : \A k \in DOMAIN AppConfig[t] :
              /\ k \in DOMAIN app_config[t]
              /\ IF t \in DOMAIN found_file.config /\ k \in DOMAIN found_file.config[t]
                 THEN kept_value(app_config[t][k], AppConfig[t][k], found_file.config[t][k])
                 ELSE app_config[t][k] = AppConfig[t][k]

\* ------------------------------------------------------------------ joined initials

\* the Bruker title being named has three or more tokens and a second token
\* longer than 3 characters
long_second_token ==
    /\ manufacturer = "bruker"
    /\ named # <<>>
    /\ named.has_title
    /\ Len(named.title) >= 2
    /\ Len(named.title[1]) >= 3
    /\ Len(named.title[1][2]) > 3

\* C21: for a Bruker title with three or more tokens whose second token is
\* longer than 3 characters, get_metadata_bruker returns as initials the first 3
\* characters of that token and as sample_info the rest of that token followed
\* by the remaining tokens, and the spectrum gets a name
C21_SplitInitials ==
    (long_second_token /\ name_out # <<>>) =>
        LET title == named.title[1]
            metadata == get_metadata_bruker(named).md[1]
        IN /\ metadata.initials = Take(title[2], 3)
           /\ metadata.sample_info = Some(<<Drop(title[2], 3)>> \o Drop(title, 2))
           /\ name_out[1].exc = "none"

\* ------------------------------------------------------------------ numbered names

\* the name N-k
numbered_name(name, k) == name \o <<"-">> \o str(k)

\* the name under which the step made a fresh copy
fresh_copy_name == Appended[1].arg

\* C22: when the desired name N is taken by different measurements, the fresh
\* copy is made under the first of N-2, N-3, N-4, ... that does not exist
C22_NumberedInOrder ==
    [][(CopyStep /\ Appended # <<>> /\ Appended[1].pre = "Spectrum found: " /\ Desired \in DOMAIN dest) =>
           \E k \in 2..(Cardinality(DOMAIN dest) + 1) :
               /\ fresh_copy_name = numbered_name(Desired, k)
               /\ fresh_copy_name \notin DOMAIN dest
               /\ \A j \in 2..(k - 1) : numbered_name(Desired, j) \in DOMAIN dest]_vars

\* ------------------------------------------------------------------ messages of a copy

\* C24 (as stated): every invocation of copy_folder returns at least one message
C24_AlwaysMessage == [][CopyStep => Appended # <<>>]_vars

\* C24: copy_folder returns no message exactly when the target it settles on
\* holds the same measurement completely, and otherwise exactly one: "Spectrum
\* found" for a fresh copy, "New files found for" for a repair, or the
\* permission message
C24_MessageUnlessCopied ==
    [][CopyStep =>
           LET f == find_target(Source, Desired, dest)
           IN IF f.same /\ ~f.incomplete
              THEN Appended = <<>> /\ dest' = dest
              ELSE /\ Len(Appended) = 1
                   /\ Appended[1] \in {Msg("Spectrum found: ", f.target), Msg("New files found for: ", f.target), PermissionMsg}]_vars

\* a scan has called copy_folder for spectra that were all copied completely
\* before, and has returned
C24_Witness ==
    /\ pc = "returned"
    /\ \E i \in 1..Len(handled) : handled[i] = "copy"
    /\ dest # <<>>
    /\ dest = dest0
    /\ \A i \in 1..Len(output_list) : output_list[i] # PermissionMsg

\* ------------------------------------------------------------------ false positives

\* C23: compare_spectra reports "same" only for two folders that hold the same
\* measurement; the comparison of the size and modification time of top-level
\* files never makes a different measurement pass for a copy
C23_NoFalsePositive ==
    (compare_out # <<>> /\ compare_out[1].same) => compared.server.measurement = compared.dest.measurement

\* compare_spectra reports "same" for different measurements only through the
\* comparison of size and modification time
SameByMetadataOnly ==
    (compare_out # <<>> /\ compare_out[1].same /\ compared.server.measurement # compared.dest.measurement) =>
        /\ top_level_cmp(compared.server.entries, compared.dest.entries) = {}
        /\ \A x \in EntryNames : subdir_cmp(compared.server.entries, compared.dest.entries, x) = {}
        /\ same_files(compared.server.entries, compared.dest.entries) # {}

\* ------------------------------------------------------------------ resolved paths

\* path is built from an archival template of the instrument
from_archive(path, spec) == Len(path) >= 2 /\ path[1] = spec /\ path[2] = "archive"

\* the resolved paths that lie under the directory of the instrument asked for
own_resolved == SelectSeq(resolved, LAMBDA path : path[1] = called.spec)

\* the instrument asked for has archival templates in the configuration as
\* loaded, and its directories are on the share
has_archives == loaded[called.spec].archives # None /\ called.spec \in share.present

\* C25: get_check_paths includes paths built from the instrument's archival
\* templates if and only if the year of the check date differs from the
\* current year, in every call of a sequence of checks in one process
C25_ArchivesByYear ==
    (calls >= 1 /\ path_exc = "none" /\ has_archives) =>
        ((\E i \in 1..Len(resolved) : from_archive(resolved[i], called.spec)) <=> called.check_date.year # this_year)

\* C26: after any number of get_check_paths calls, specs_info, with every
\* instrument's check_paths and archives, equals what it was when loaded
C26_ConfigUnchanged == specs_info = loaded

\* a path that holds the group's abbreviation or name and no other group's
of_group(path, group) ==
    /\ \E i \in 1..Len(path) : path[i] \in {group, group_name(group)}
    /\ \A i \in 1..Len(path) : \A g \in 1..Len(all_groups) :
           (all_groups[g].group # group /\ path[i] \in {all_groups[g].group, all_groups[g].name}) => FALSE

\* C27: in the first call of a process, a group-wildcard search yields no
\* directory of the instrument more than once, and a search without the
\* wildcard yields only paths of the requester's own group
C27_OnePathPerGroup ==
    (calls = 1 /\ path_exc = "none") =>
        IF called.wild_group
        THEN \A i \in 1..Len(own_resolved) : \A j \in 1..Len(own_resolved) : i # j => own_resolved[i] # own_resolved[j]
        ELSE \A i \in 1..Len(own_resolved) : of_group(own_resolved[i], called.group)

\* the overflow numbers of base directory path that all exist from 2 on, up to stop
run_of(path, stop) == {k \in overflow_first..stop : \A j \in overflow_first..k : exists_on_share(with_name(path, j))}

\* the overflow numbers of path that were returned
returned_of(path) == {k \in overflow_first..overflow_stop : \E i \in 1..Len(resolved) : resolved[i] = with_name(path, k)}

\* C28 (as stated): for each base directory P the overflow directory P_k is
\* returned for exactly those k in 2..20 for which P_2, ..., P_k all exist
C28_OverflowToTwenty ==
    (calls >= 1 /\ path_exc = "none") =>
        \A i \in 1..Len(resolved) : ~is_overflow(resolved[i]) => returned_of(resolved[i]) = run_of(resolved[i], overflow_stop)

\* C28: for each base directory P the overflow directory P_k is returned for
\* exactly those k in 2..19 for which P_2, ..., P_k all exist
C28_OverflowBelowTwenty ==
    (calls >= 1 /\ path_exc = "none") =>
        \A i \in 1..Len(resolved) : ~is_overflow(resolved[i]) => returned_of(resolved[i]) = run_of(resolved[i], overflow_stop - 1)

\* a call has returned a base directory all of whose overflow folders 2 to 20
\* exist, with its overflow folder 19
C28_Witness ==
    /\ calls >= 1
    /\ path_exc = "none"
    /\ \E i \in 1..Len(resolved) :
           /\ ~is_overflow(resolved[i])
           /\ share.nums = overflow_first..overflow_stop
           /\ with_name(resolved[i], overflow_stop - 1) \in {resolved[j] : j \in 1..Len(resolved)}

\* ------------------------------------------------------------------ magnet frequency

\* the first immediate subfolder of the folder being named, in iteration order,
\* that contains a text file
first_text == named.entries[text_subfolders(named)[1]].text

\* C29: get_metadata_agilent takes the magnet frequency from the first
\* immediate subfolder, in iteration order, that contains a text file, and
\* reads no later subfolder: the metadata from which the name is formatted
\* hold that frequency
C29_FirstTextDecides ==
    (manufacturer = "agilent" /\ name_out # <<>> /\ text_subfolders(named) # <<>> /\ first_text.k = "ok") =>
        get_metadata_agilent(named).md[1].frequency = Some(first_text.freq)

\* a folder whose first text file is good and whose later one is too short is
\* never named: the later file is read and the extraction fails
LaterTextRead == named = ShortSecond => name_out = <<>>

\* ------------------------------------------------------------------ legacy style

\* format_name was called with the legacy (NMRCheck) style and returned a name
legacy_named == name_out # <<>> /\ fed_options.group # nmr /\ fed_options.nmrcheck_style /\ name_out[1].exc = "none"

\* the underscore-joined initials, sample tokens, parent folder name and folder name
legacy_base == Join(<<"_">>, <<named_metadata.initials>> \o named_metadata.sample_info[1] \o <<named.parent, named.name>>)

\* what is appended whatever the style: the magnet frequency if it is known
frequency_suffix == IF named_metadata.frequency # None THEN <<"_">> \o named_metadata.frequency[1] ELSE <<>>

\* what inc_solv appends if the solvent is known
solvent_suffix(inc_solv) == IF inc_solv /\ named_metadata.solvent # None THEN <<"-">> \o named_metadata.solvent[1] ELSE <<>>

\* C30 (as stated): with the legacy style format_name returns the same name
\* whatever the values of inc_init and inc_solv, the underscore-joined
\* initials, sample tokens, parent folder name and folder name
C30_TogglesIgnored ==
    legacy_named =>
        /\ \A i \in BOOLEAN, v \in BOOLEAN : format_name(named, named_metadata, FALSE, i, v, TRUE) = name_out[1]
        /\ name_out[1].name = sanitize(legacy_base \o frequency_suffix)

\* C30: with the legacy style format_name returns the same name whatever the
\* value of inc_init: the underscore-joined initials, sample tokens, parent
\* folder name and folder name, followed by "-" and the solvent if inc_solv is
\* set and the solvent is known
C30_InitialsToggleIgnored ==
    legacy_named =>
        /\ \A i \in BOOLEAN : format_name(named, named_metadata, FALSE, i, fed_options.inc_solv, TRUE) = name_out[1]
        /\ name_out[1].name = sanitize(legacy_base \o solvent_suffix(fed_options.inc_solv) \o frequency_suffix)

\* a Bruker spectrum was named in the legacy style with both toggles set
C30_Witness == legacy_named /\ fed_options.inc_init /\ fed_options.inc_solv /\ named_metadata.solvent # None

\* ------------------------------------------------------------------ administrative names

\* a name was formatted for a requester of the administrative group
admin_named == name_out # <<>> /\ fed_options.group = nmr /\ name_out[1].exc = "none"

\* the name holds the group (if the metadata have one) and the initials
group_and_initials ==
    Contains((IF named_metadata.group # None THEN named_metadata.group[1] \o <<"-">> ELSE <<>>) \o named_metadata.initials \o <<"-">>, name_out[1].name)

\* the name holds the solvent
solvent_named == Contains(<<"-">> \o named_metadata.solvent[1], name_out[1].name)

\* C31: for a requester of the group nmr the name always contains
\* the group, the initials and the solvent, whenever the metadata has them,
\* whatever inc_init and inc_solv are
C31_AdminAlwaysAll ==
    admin_named => group_and_initials /\ (named_metadata.solvent # None => solvent_named)

\* the part about the group and the initials alone
AdminGroupInitials == admin_named => group_and_initials

\* ------------------------------------------------------------------ allowed characters

\* alphanumeric characters, space, hyphen and underscore
allowed(c) == isalnum(c) \/ c \in {"-", "_", " "}

\* C32: the name handed to copy_folder contains only alphanumeric characters,
\* spaces, hyphens and underscores, for every naming style, including the
\* administrative style with the server location prepended or appended
C32_OnlyAllowed ==
    (name_out # <<>> /\ name_out[1].exc = "none") => \A i \in 1..Len(name_out[1].name) : allowed(name_out[1].name[i])

\* the same for the names that do not hold the server location
AllowedWithoutLocation ==
    (name_out # <<>> /\ name_out[1].exc = "none" /\ (fed_options.group # nmr \/ fed_options.inc_path = "False")) =>
        \A i \in 1..Len(name_out[1].name) : allowed(name_out[1].name[i])

\* ------------------------------------------------------------------ reversibility

RECURSIVE decode(_)
\* every hex code of a special character in name replaced by that character
decode(name) ==
    IF name = <<>> THEN <<>>
    ELSE IF Len(name) >= 4 /\ SubSeq(name, 1, 4) = hex("+") THEN <<"+">> \o decode(Drop(name, 4))
    ELSE IF Len(name) >= 4 /\ SubSeq(name, 1, 4) = hex("*") THEN <<"*">> \o decode(Drop(name, 4))
    ELSE <<name[1]>> \o decode(Tail(name))

\* C33: the formatted name has no character outside letters, digits, space,
\* hyphen and underscore, decoding its hex codes recovers the composed name,
\* and no other composed name gives the same formatted name
C33_Reversible ==
    sanitized # <<>> =>
        /\ \A i \in 1..Len(sanitized[1]) : allowed(sanitized[1][i])
        /\ decode(sanitized[1]) = composed
        /\ \A other \in ComposedNames : sanitize(other) = sanitized[1] => other = composed

\* the first part alone: no character that is not allowed is left
SanitizedAllowed == sanitized # <<>> => \A i \in 1..Len(sanitized[1]) : allowed(sanitized[1][i])

\* a Worker that was created and has not yet left Worker.run
outstanding == Len(threadpool) + Cardinality(running)

\* C36: the counter queued_checks is never negative, and it is 0 only when no
\* check is running or waiting in the thread pool, whatever the order of
\* start, completion, repeat-timer, repeat-toggle and cancel events
C36_CounterSound == queued_checks >= 0 /\ (queued_checks = 0 => outstanding = 0)

\* C34: the criteria of a scan are fixed: whatever check_nmr reads of the
\* options while the check runs is what the options were when the check was
\* queued, also when the user edits the options in between
C34_CriteriaFixed == \A r \in read_by : r[2] = queued_with[r[1]]

\* C35: every value handed to the progress bar is at most the bar's maximum at
\* that moment, within one scan and across the scans of a sweep
C35_WithinMaximum == [][bar_value' # bar_value => bar_value' <= bar_max']_vars

\* the days from the date through today, ascending; none for a later date
through_today(date) == <<>> \o [i \in 1..(IF date > Today THEN 0 ELSE Today - date + 1) |-> date + i - 1]

\* the sweeps asked for so far: one per started() of the desktop app, one by
\* the command line's main
sweeps == IF frontend = "gui" THEN starts ELSE IF main = "start" THEN 0 ELSE 1

\* C37: multiday_check ends for every initial date, without an exception, and
\* queues exactly one check per day from the initial date through today, in
\* ascending order: none when the initial date is after today
C37_OnePerDay ==
    since_button =>
        /\ main # "crashed"
        /\ Len(created) = sweeps * Len(through_today(date_selected))
        /\ \A i \in 1..Len(created) :
              created[i].date = through_today(date_selected)[((i - 1) % Len(through_today(date_selected))) + 1]

\* entry[:5] of the messages a list can hold; every other text begins with
\* neither "Spect" nor "Check"
first_five(entry) ==
    CASE entry.pre = "Spectrum found: " -> "Spect"
      [] entry.pre = "New files found for: " -> "New f"
      [] entry.pre = "Check of " -> "Check"
      [] entry.pre = "No new spectra" -> "No ne"
      [] entry.pre = "No metadata could be found for " -> "No me"
      [] entry.pre = "Exception" -> "Excep"
      [] OTHER -> "other"

\* Controller.check_ended: what the handler takes the list for, by its branches
classified(copied_list) ==
    IF Len(copied_list) > 1
    THEN IF first_five(copied_list[2]) = "Spect" THEN "spectra"
         ELSE IF first_five(copied_list[2]) = "Check" THEN "nothing"
         ELSE "error"
    ELSE "error"

\* the list holds a message of a copied or completed spectrum
found_message(copied_list) ==
    \E i \in 1..Len(copied_list) : copied_list[i].pre \in {"Spectrum found: ", "New files found for: "}

\* the list of a check that raised, that ended before its loop, or that was
\* refused the permission to write
failed(copied_list) ==
    \/ copied_list[1].pre = "Exception"
    \/ copied_list[Len(copied_list)] # completed_statement
    \/ \E i \in 1..Len(copied_list) : copied_list[i] = PermissionMsg

\* C38: the desktop completion handler takes a list for found spectra whenever
\* it holds a "Spectrum found" or "New files found" message, wherever it
\* stands, and for an error only when a precondition failed or an exception
\* was raised
C38_Classified ==
    emitted # <<>> =>
        /\ classified(emitted) = "spectra" <=> found_message(emitted)
        /\ classified(emitted) = "error" => failed(emitted)

\* C39: on the command line a user argument that starts with "*" turns the
\* wildcard on and the text after the "*", without leading spaces, is the
\* initials; any other argument is the initials as it is, the wildcard off
C39_WildcardParsed ==
    user_parsed # <<>> =>
        IF args_user # <<>> /\ args_user[1] = "*"
        THEN user_parsed[1] = [initials |-> lstrip(Drop(args_user, 1)), wild_group |-> TRUE]
        ELSE user_parsed[1] = [initials |-> args_user, wild_group |-> FALSE]

\* the call has ended, by returning or by raising
agilent_ended == agilent_pc \in {"returned", "IndexError"}

\* C40: get_metadata_agilent ends for every spectrum folder, and the dict it
\* returns has frequency None when no immediate subfolder holds a `text` file
C40_EndsAndNone ==
    /\ <>agilent_ended
    /\ [](agilent_pc = "returned" /\ text_subfolders(probed) = <<>> => agilent_md[1].frequency = None)

\* a folder with a subfolder and a plain file but no `text` file was read, and
\* the dict returned has no frequency
C40_Witness ==
    /\ agilent_pc = "returned"
    /\ Len(iterdir(probed)) >= 2
    /\ text_subfolders(probed) = <<>>
    /\ agilent_md[1].frequency = None
====
